---- MODULE Spec2Model ----
(***************************************************************************)
(* Token cache and provider client of the travel assistant:                *)
(* AmadeusService (src/services/amadeus_service.py) and HotelService       *)
(* (src/services/hotel_service.py).  Each service instance holds one       *)
(* bearer token and its expiry epoch; every operation first obtains a      *)
(* token (_ensure_token) and then issues one search GET.  The operations   *)
(* are coroutines: an invocation is suspended while its auth POST or its   *)
(* search GET is in flight, and other invocations run meanwhile.           *)
(***************************************************************************)
EXTENDS Integers, Sequences, FiniteSets, TLC

(* ---------------------------- bounds ----------------------------------- *)
\* the clock runs from 0 to MaxTime in steps of TickStep seconds
MaxTime == 60
TickStep == 30

(* ----------------------- program constants ----------------------------- *)
\* result.get('expires_in', 1800)
DefaultExpiresIn == 1800
\* current_time + expires_in - 60
RefreshMargin == 60
\* response.status == 200
HttpOk == 200

(* ------------------------- value universe ------------------------------ *)
\* Python's None, as a token value
None == "<None>"
\* a local variable that has not been assigned yet
Unset == "<unset>"

\* the two singletons: amadeus_service and hotel_service
Services == {"amadeus", "hotel"}
\* the invocations of a run, in the order they start; all of them may be in
\* flight at the same time
CallOrder == <<"c1", "c2", "c3">>
Calls == {CallOrder[i] : i \in DOMAIN CallOrder}

ListOps == {"search_airports", "get_flight_checkin_links"}
DictOps == {"search_flights", "search_hotels_by_city", "search_hotel_offers"}
SearchOps == ListOps \cup DictOps
Ops == SearchOps \cup {"ensure_token"}

\* the instance an operation is a method of
ServiceOf(op) ==
  IF op \in {"search_airports", "search_flights", "get_flight_checkin_links"}
  THEN "amadeus" ELSE "hotel"

\* tokens the auth endpoint may put in a 200 body ("" is an empty string,
\* None a missing or null access_token)
IssuedTokens == {"T1", "T2"}
TokenValues == IssuedTokens \cup {"", None}
\* lifetimes the auth endpoint may state, in seconds
ExpiresIns == {60, 90}

\* Python truthiness of a token value: `if not access_token`
Truthy(v) == v \notin {None, ""}

\* dict.get(key, default)
Get(d, k, default) == IF k \in DOMAIN d THEN d[k] ELSE default

(* ------------------------------- text ---------------------------------- *)
\* A str whose characters matter (city names, dates, descriptions) is the
\* sequence of its characters.
LowerCase == <<"a", "b", "c", "d", "e", "f", "g", "h", "i", "j", "k", "l", "m",
               "n", "o", "p", "q", "r", "s", "t", "u", "v", "w", "x", "y", "z">>
UpperCase == <<"A", "B", "C", "D", "E", "F", "G", "H", "I", "J", "K", "L", "M",
               "N", "O", "P", "Q", "R", "S", "T", "U", "V", "W", "X", "Y", "Z">>
Digits == <<"0", "1", "2", "3", "4", "5", "6", "7", "8", "9">>

IndexIn(seq, ch) == CHOOSE i \in DOMAIN seq : seq[i] = ch
IsIn(seq, ch) == \E i \in DOMAIN seq : seq[i] = ch

\* str.lower(), str.upper(), str.replace(" ", "")
lower(str) ==
  [i \in DOMAIN str |->
     IF IsIn(UpperCase, str[i]) THEN LowerCase[IndexIn(UpperCase, str[i])] ELSE str[i]]
upper(str) ==
  [i \in DOMAIN str |->
     IF IsIn(LowerCase, str[i]) THEN UpperCase[IndexIn(LowerCase, str[i])] ELSE str[i]]
remove_spaces(str) == SelectSeq(str, LAMBDA ch : ch # " ")

\* dict.get(key, default) on a dict written as a set of <<key, value>> pairs
Keys(dict) == {p[1] : p \in dict}
DictGet(dict, key, default) ==
  IF key \in Keys(dict) THEN (CHOOSE p \in dict : p[1] = key)[2] ELSE default

(* ---------------------------- static tables ---------------------------- *)
HOTEL_ID_MAPPING ==
  { <<<<"l", "o", "n", "d", "o", "n">>, <<"MCLONGHM", "HSLONROT">>>>,
    <<<<"l", "o", "n">>, <<"MCLONGHM", "HSLONROT">>>>,
    <<<<"n", "e", "w", "y", "o", "r", "k">>, <<"NYNYCTSC", "NYCNYCHM">>>>,
    <<<<"n", "y", "c">>, <<"NYNYCTSC", "NYCNYCHM">>>>,
    <<<<"n", "e", "w", " ", "y", "o", "r", "k">>, <<"NYNYCTSC", "NYCNYCHM">>>>,
    <<<<"p", "a", "r", "i", "s">>, <<"PARPARHT", "HSPARPDG">>>>,
    <<<<"p", "a", "r">>, <<"PARPARHT", "HSPARPDG">>>>,
    <<<<"t", "o", "k", "y", "o">>, <<"TYOPACTH", "TYOTYOKH">>>>,
    <<<<"t", "y", "o">>, <<"TYOPACTH", "TYOTYOKH">>>>,
    <<<<"b", "e", "i", "j", "i", "n", "g">>, <<"PEKPEKFS", "PEKBEKRG">>>>,
    <<<<"p", "e", "k">>, <<"PEKPEKFS", "PEKBEKRG">>>>,
    <<<<"s", "h", "a", "n", "g", "h", "a", "i">>, <<"SHAPUDHD", "SHAPEKRG">>>>,
    <<<<"s", "h", "a">>, <<"SHAPUDHD", "SHAPEKRG">>>>,
    <<<<"h", "o", "n", "g", "k", "o", "n", "g">>, <<"HKGHKGSH", "HKGHKGHR">>>>,
    <<<<"h", "k", "g">>, <<"HKGHKGSH", "HKGHKGHR">>>>,
    <<<<"h", "o", "n", "g", " ", "k", "o", "n", "g">>, <<"HKGHKGSH", "HKGHKGHR">>>>,
    <<<<"s", "i", "n", "g", "a", "p", "o", "r", "e">>, <<"SINSINRH", "SINSINFS">>>>,
    <<<<"s", "i", "n">>, <<"SINSINRH", "SINSINFS">>>>,
    <<<<"b", "a", "n", "g", "k", "o", "k">>, <<"BKKBKKHB", "BKKBKKSH">>>>,
    <<<<"b", "k", "k">>, <<"BKKBKKHB", "BKKBKKSH">>>>,
    <<<<"s", "y", "d", "n", "e", "y">>, <<"SYDSYDHP", "SYDSYDFS">>>>,
    <<<<"s", "y", "d">>, <<"SYDSYDHP", "SYDSYDFS">>>>,
    <<<<"d", "u", "b", "a", "i">>, <<"DXBDUBCC", "DXBDUBIC">>>>,
    <<<<"d", "x", "b">>, <<"DXBDUBCC", "DXBDUBIC">>>>,
    <<<<"l", "o", "s", "a", "n", "g", "e", "l", "e", "s">>, <<"LAXLAXTL", "LAXBVRMC">>>>,
    <<<<"l", "a", "x">>, <<"LAXLAXTL", "LAXBVRMC">>>>,
    <<<<"l", "o", "s", " ", "a", "n", "g", "e", "l", "e", "s">>, <<"LAXLAXTL", "LAXBVRMC">>>>,
    <<<<"s", "a", "n", "f", "r", "a", "n", "c", "i", "s", "c", "o">>, <<"SFOSFOLW", "SFOSFOSC">>>>,
    <<<<"s", "f", "o">>, <<"SFOSFOLW", "SFOSFOSC">>>>,
    <<<<"s", "a", "n", " ", "f", "r", "a", "n", "c", "i", "s", "c", "o">>, <<"SFOSFOLW", "SFOSFOSC">>>> }

CITY_CODE_MAPPING ==
  { <<<<"l", "o", "n", "d", "o", "n">>, <<"L", "O", "N">>>>,
    <<<<"p", "a", "r", "i", "s">>, <<"P", "A", "R">>>>,
    <<<<"n", "e", "w", "y", "o", "r", "k">>, <<"N", "Y", "C">>>>,
    <<<<"n", "e", "w", " ", "y", "o", "r", "k">>, <<"N", "Y", "C">>>>,
    <<<<"t", "o", "k", "y", "o">>, <<"T", "Y", "O">>>>,
    <<<<"b", "e", "i", "j", "i", "n", "g">>, <<"P", "E", "K">>>>,
    <<<<"s", "h", "a", "n", "g", "h", "a", "i">>, <<"S", "H", "A">>>>,
    <<<<"h", "o", "n", "g", "k", "o", "n", "g">>, <<"H", "K", "G">>>>,
    <<<<"h", "o", "n", "g", " ", "k", "o", "n", "g">>, <<"H", "K", "G">>>>,
    <<<<"s", "i", "n", "g", "a", "p", "o", "r", "e">>, <<"S", "I", "N">>>>,
    <<<<"b", "a", "n", "g", "k", "o", "k">>, <<"B", "K", "K">>>>,
    <<<<"s", "y", "d", "n", "e", "y">>, <<"S", "Y", "D">>>>,
    <<<<"d", "u", "b", "a", "i">>, <<"D", "X", "B">>>>,
    <<<<"l", "o", "s", "a", "n", "g", "e", "l", "e", "s">>, <<"L", "A", "X">>>>,
    <<<<"l", "o", "s", " ", "a", "n", "g", "e", "l", "e", "s">>, <<"L", "A", "X">>>>,
    <<<<"s", "a", "n", "f", "r", "a", "n", "c", "i", "s", "c", "o">>, <<"S", "F", "O">>>>,
    <<<<"s", "a", "n", " ", "f", "r", "a", "n", "c", "i", "s", "c", "o">>, <<"S", "F", "O">>>>,
    <<<<"b", "e", "r", "l", "i", "n">>, <<"B", "E", "R">>>>,
    <<<<"f", "r", "a", "n", "k", "f", "u", "r", "t">>, <<"F", "R", "A">>>>,
    <<<<"a", "m", "s", "t", "e", "r", "d", "a", "m">>, <<"A", "M", "S">>>>,
    <<<<"r", "o", "m", "e">>, <<"R", "O", "M">>>>,
    <<<<"m", "a", "d", "r", "i", "d">>, <<"M", "A", "D">>>>,
    <<<<"b", "a", "r", "c", "e", "l", "o", "n", "a">>, <<"B", "C", "N">>>>,
    <<<<"m", "o", "s", "c", "o", "w">>, <<"M", "O", "W">>>>,
    <<<<"c", "h", "i", "c", "a", "g", "o">>, <<"C", "H", "I">>>>,
    <<<<"w", "a", "s", "h", "i", "n", "g", "t", "o", "n">>, <<"W", "A", "S">>>>,
    <<<<"b", "o", "s", "t", "o", "n">>, <<"B", "O", "S">>>>,
    <<<<"t", "o", "r", "o", "n", "t", "o">>, <<"Y", "T", "O">>>>,
    <<<<"v", "a", "n", "c", "o", "u", "v", "e", "r">>, <<"Y", "V", "R">>>>,
    <<<<"m", "o", "n", "t", "r", "e", "a", "l">>, <<"Y", "M", "Q">>>>,
    <<<<"m", "i", "l", "a", "n">>, <<"M", "I", "L">>>>,
    <<<<"v", "i", "e", "n", "n", "a">>, <<"V", "I", "E">>>> }

BOARD_TYPE_MAPPING ==
  { <<<<"r", "o", "o", "m", " ", "o", "n", "l", "y">>,
      <<"R", "O", "O", "M", "_", "O", "N", "L", "Y">>>>,
    <<<<"b", "r", "e", "a", "k", "f", "a", "s", "t">>,
      <<"B", "R", "E", "A", "K", "F", "A", "S", "T">>>>,
    <<<<"h", "a", "l", "f", " ", "b", "o", "a", "r", "d">>,
      <<"H", "A", "L", "F", "_", "B", "O", "A", "R", "D">>>>,
    <<<<"f", "u", "l", "l", " ", "b", "o", "a", "r", "d">>,
      <<"F", "U", "L", "L", "_", "B", "O", "A", "R", "D">>>>,
    <<<<"a", "l", "l", " ", "i", "n", "c", "l", "u", "s", "i", "v", "e">>,
      <<"A", "L", "L", "_", "I", "N", "C", "L", "U", "S", "I", "V", "E">>>> }

\* variant: the key is not lowercased
city_key_NoLower(city) == remove_spaces(city)

\* `city.lower().replace(" ", "")`
city_key(city) == remove_spaces(lower(city))

\* `HOTEL_ID_MAPPING.get(city_key, [])`
hotel_ids_for(city) == DictGet(HOTEL_ID_MAPPING, city_key(city), <<>>)

\* variant: a city that is not in the table is passed on as typed
city_code_for_RawFallback(city) == DictGet(CITY_CODE_MAPPING, city_key(city), city)

\* `CITY_CODE_MAPPING.get(city_key, city.upper())`
city_code_for(city) == DictGet(CITY_CODE_MAPPING, city_key(city), upper(city))

\* variant: the tool goes on to the service with an empty hotel-ID list
NoHotelInformation_Never(hotel_ids) == FALSE

\* `if not hotel_ids:`
NoHotelInformation(hotel_ids) == hotel_ids = <<>>

(* ------------------------------- dates --------------------------------- *)
AllDigits(str) == \A i \in DOMAIN str : IsIn(Digits, str[i])

RECURSIVE NumVal(_)
\* int() of a string of digits
NumVal(str) ==
  IF str = <<>> THEN 0
  ELSE NumVal(SubSeq(str, 1, Len(str) - 1)) * 10 + (IndexIn(Digits, str[Len(str)]) - 1)

IsLeap(y) == (y % 4 = 0 /\ y % 100 # 0) \/ y % 400 = 0
DaysInMonth(y, m) ==
  IF m = 2 THEN (IF IsLeap(y) THEN 29 ELSE 28)
  ELSE IF m \in {4, 6, 9, 11} THEN 30 ELSE 31

NoDate == [ok |-> FALSE, y |-> 0, m |-> 0, d |-> 0]

\* datetime.strptime(str, "%Y-%m-%d"): four digits, "-", one or two digits
\* of a month 1..12, "-", one or two digits of a day the month has; anything
\* else raises ValueError (ok = FALSE)
strptime(str) ==
  IF \E k \in {7, 8} :
       /\ Len(str) \in (k + 1)..(k + 2)
       /\ AllDigits(SubSeq(str, 1, 4)) /\ str[5] = "-" /\ str[k] = "-"
       /\ AllDigits(SubSeq(str, 6, k - 1)) /\ AllDigits(SubSeq(str, k + 1, Len(str)))
  THEN LET k == CHOOSE k \in {7, 8} : Len(str) >= k /\ str[k] = "-"
           y == NumVal(SubSeq(str, 1, 4))
           m == NumVal(SubSeq(str, 6, k - 1))
           d == NumVal(SubSeq(str, k + 1, Len(str)))
       IN IF m \in 1..12 /\ d >= 1 /\ d <= DaysInMonth(y, m)
          THEN [ok |-> TRUE, y |-> y, m |-> m, d |-> d]
          ELSE NoDate
  ELSE NoDate

\* variant: the default check-out day is the same day number in the next
\* position of the month, with no carry into the next month
plus_one_day_NoCarry(dt) == [dt EXCEPT !.d = dt.d + 1]

\* `check_in_dt + timedelta(days=1)`
plus_one_day(dt) ==
  IF dt.d < DaysInMonth(dt.y, dt.m) THEN [dt EXCEPT !.d = dt.d + 1]
  ELSE IF dt.m < 12 THEN [dt EXCEPT !.m = dt.m + 1, !.d = 1]
  ELSE [dt EXCEPT !.y = dt.y + 1, !.m = 1, !.d = 1]

\* the decimal digits of n, zero-padded to `width` characters
Padded(n, width) ==
  [i \in 1..width |-> Digits[((n \div (10 ^ (width - i))) % 10) + 1]]

\* dt.strftime("%Y-%m-%d")
strftime(dt) ==
  Padded(dt.y, 4) \o <<"-">> \o Padded(dt.m, 2) \o <<"-">> \o Padded(dt.d, 2)

(* ---------------------------- query strings ---------------------------- *)
RECURSIVE join(_)
\* ",".join(list): the elements in order with a comma between neighbours
join(list) ==
  IF list = <<>> THEN <<>>
  ELSE IF Len(list) = 1 THEN <<list[1]>>
  ELSE <<list[1], ",">> \o join(Tail(list))

\* str(b).lower() of a bool
bool_lower(b) == IF b THEN "true" ELSE "false"

\* An Optional[...] argument whose value is a sequence: omitted (Python None)
\* or given
Omitted == [some |-> FALSE, v |-> <<>>]
Given(v) == [some |-> TRUE, v |-> v]
\* truth value of such an argument: None and the empty str/list are false
TruthyOpt(o) == o.some /\ o.v # <<>>

\* a params entry that is there only under a condition
Entry(cond, key, value) == IF cond THEN key :> value ELSE <<>>

\* variant: priceRange is attached whenever price_range is given
OfferParams_PriceAlone(a) ==
  [ hotelIds |-> join(a.hotel_ids),
    checkInDate |-> a.check_in_date,
    adults |-> a.adults,
    roomQuantity |-> a.room_quantity,
    bestRateOnly |-> bool_lower(a.best_rate_only) ]
  @@ Entry(TruthyOpt(a.check_out_date), "checkOutDate", a.check_out_date.v)
  @@ Entry(Truthy(a.price_range), "priceRange", a.price_range)
  @@ Entry(Truthy(a.price_range) /\ Truthy(a.currency), "currency", a.currency)
  @@ Entry(TruthyOpt(a.board_type), "boardType", a.board_type.v)
  @@ Entry(a.include_closed, "includeClosed", bool_lower(a.include_closed))

\* variant: the booleans are sent as Python prints them
OfferParams_PythonBool(a) ==
  [ hotelIds |-> join(a.hotel_ids),
    checkInDate |-> a.check_in_date,
    adults |-> a.adults,
    roomQuantity |-> a.room_quantity,
    bestRateOnly |-> IF a.best_rate_only THEN "True" ELSE "False" ]
  @@ Entry(TruthyOpt(a.check_out_date), "checkOutDate", a.check_out_date.v)
  @@ Entry(Truthy(a.price_range) /\ Truthy(a.currency), "priceRange", a.price_range)
  @@ Entry(Truthy(a.price_range) /\ Truthy(a.currency), "currency", a.currency)
  @@ Entry(TruthyOpt(a.board_type), "boardType", a.board_type.v)
  @@ Entry(a.include_closed, "includeClosed", IF a.include_closed THEN "True" ELSE "False")

\* params of HotelService.search_hotel_offers
OfferParams(a) ==
  [ hotelIds |-> join(a.hotel_ids),
    checkInDate |-> a.check_in_date,
    adults |-> a.adults,
    roomQuantity |-> a.room_quantity,
    bestRateOnly |-> bool_lower(a.best_rate_only) ]
  @@ Entry(TruthyOpt(a.check_out_date), "checkOutDate", a.check_out_date.v)
  @@ Entry(Truthy(a.price_range) /\ Truthy(a.currency), "priceRange", a.price_range)
  @@ Entry(Truthy(a.price_range) /\ Truthy(a.currency), "currency", a.currency)
  @@ Entry(TruthyOpt(a.board_type), "boardType", a.board_type.v)
  @@ Entry(a.include_closed, "includeClosed", bool_lower(a.include_closed))

\* variant: the elements of a list are sent in reverse order
CityParams_Reversed(a) ==
  [ cityCode |-> a.city_code,
    radius |-> a.radius,
    radiusUnit |-> a.radius_unit,
    hotelSource |-> a.hotel_source ]
  @@ Entry(TruthyOpt(a.chain_codes), "chainCodes",
           join([i \in DOMAIN a.chain_codes.v |->
                   a.chain_codes.v[Len(a.chain_codes.v) + 1 - i]]))
  @@ Entry(TruthyOpt(a.amenities), "amenities", join(a.amenities.v))
  @@ Entry(TruthyOpt(a.ratings), "ratings", join(a.ratings.v))

\* params of HotelService.search_hotels_by_city
CityParams(a) ==
  [ cityCode |-> a.city_code,
    radius |-> a.radius,
    radiusUnit |-> a.radius_unit,
    hotelSource |-> a.hotel_source ]
  @@ Entry(TruthyOpt(a.chain_codes), "chainCodes", join(a.chain_codes.v))
  @@ Entry(TruthyOpt(a.amenities), "amenities", join(a.amenities.v))
  @@ Entry(TruthyOpt(a.ratings), "ratings", join(a.ratings.v))

\* the defaults of the signatures of the two hotel operations
OfferDefaults ==
  [ hotel_ids |-> <<"MCLONGHM">>,
    check_in_date |-> <<"2", "0", "2", "5", "-", "0", "7", "-", "0", "1">>,
    check_out_date |-> Omitted, adults |-> 1, room_quantity |-> 1,
    price_range |-> None, currency |-> None, board_type |-> Omitted,
    include_closed |-> FALSE, best_rate_only |-> TRUE ]
CityDefaults ==
  [ city_code |-> <<"P", "A", "R">>, radius |-> 5, radius_unit |-> "KM",
    chain_codes |-> Omitted, amenities |-> Omitted, ratings |-> Omitted,
    hotel_source |-> "ALL" ]

\* arguments that are not modelled (the flight operations, _ensure_token)
NoArgs == [none |-> TRUE]

\* the arguments of an invocation whose arguments are not under study: the
\* required ones of the docstring examples, the others at their defaults
SampleArgs(op) ==
  IF op = "search_hotel_offers" THEN OfferDefaults
  ELSE IF op = "search_hotels_by_city" THEN CityDefaults
  ELSE NoArgs

\* the params dict an operation sends with its search GET
QueryOf(op, args) ==
  IF op = "search_hotel_offers" THEN OfferParams(args)
  ELSE IF op = "search_hotels_by_city" THEN CityParams(args)
  ELSE [none |-> TRUE]

(* ----------------------- provider behaviour ---------------------------- *)
\* What the auth POST can come back with.  kind "exception": the transport
\* raised.  Otherwise a status; for a 200 either the body does not parse to
\* a JSON object (json_ok = FALSE), or it is an object whose access_token is
\* a string or missing/null (None) and whose expires_in is an integer, is
\* missing ("absent") or is not a number ("non_numeric": null or a string).
AuthBody(a, ek, e) == [access_token |-> a, expires_in_kind |-> ek, expires_in |-> e]
NoAuthBody == AuthBody(None, "absent", 0)
AuthResponses ==
  {[kind |-> "exception", status |-> 0, json_ok |-> FALSE, body |-> NoAuthBody]}
  \cup {[kind |-> "response", status |-> 401, json_ok |-> FALSE, body |-> NoAuthBody]}
  \cup {[kind |-> "response", status |-> HttpOk, json_ok |-> FALSE, body |-> NoAuthBody]}
  \cup {[kind |-> "response", status |-> HttpOk, json_ok |-> TRUE, body |-> AuthBody(a, "int", e)] :
          a \in TokenValues, e \in ExpiresIns}
  \cup {[kind |-> "response", status |-> HttpOk, json_ok |-> TRUE, body |-> AuthBody(a, ek, 0)] :
          a \in TokenValues, ek \in {"absent", "non_numeric"}}
\* How the auth exchange of an invocation ended: "non200" (the else branch),
\* "exception" (the except clause: the transport raised, the body did not
\* parse, or the arithmetic on expires_in raised), "200" (the if branch ran
\* to its return).
AuthOutcome(r) ==
  IF r.kind = "exception" THEN "exception"
  ELSE IF r.status # HttpOk THEN "non200"
  ELSE IF ~r.json_ok \/ r.body.expires_in_kind = "non_numeric" THEN "exception"
  ELSE "200"

\* JSON objects a search endpoint may answer with (Python dicts: functions
\* from keys to values)
SearchBodies ==
  { [warnings |-> "w"],
    [data |-> <<>>],
    [data |-> <<"r1">>, meta |-> [count |-> 1]],
    [data |-> <<"r1", "r2">>, dictionaries |-> [carriers |-> "BA"]] }
NoSearchBody == [warnings |-> "w"]
\* What the search GET can come back with.  kind "exception": the transport
\* raised, or reading/parsing the body raised; msg is str(e), which is ""
\* for exceptions without arguments such as asyncio.TimeoutError().
SearchResponses ==
  {[kind |-> "exception", status |-> 0, msg |-> m, text |-> "", body |-> NoSearchBody] :
          m \in {"", "Cannot connect to host"}}
  \cup {[kind |-> "response", status |-> st, msg |-> "", text |-> t, body |-> NoSearchBody] :
          st \in {401, 500}, t \in {"", "{errors}"}}
  \cup {[kind |-> "response", status |-> HttpOk, msg |-> "", text |-> "", body |-> b] :
          b \in SearchBodies}
\* how the search exchange of an invocation ended
SearchOutcome(r) ==
  IF r.kind = "exception" THEN "exception"
  ELSE IF r.status = HttpOk THEN "200" ELSE "non200"

(* ------------------------------ state ---------------------------------- *)
VARIABLES
  access_token,      \* self.access_token of each service instance
  token_expires_at,  \* self.token_expires_at of each service instance
  now,               \* int(time.time())
  calls,             \* the coroutines: position, locals and what they sent
  grant,             \* what the provider granted for the token each instance holds
  invocations,       \* number of invocations so far
  AMADEUS_HOST       \* settings.AMADEUS_HOST, read from the environment at import

vars == <<access_token, token_expires_at, now, calls, grant, invocations, AMADEUS_HOST>>

\* a dict-shaped return value that is not there (list- and token-returning
\* operations, pending invocations)
NoDict == [none |-> TRUE]

IdleCall ==
  [ pc |-> "idle", op |-> "ensure_token", svc |-> "amadeus",
    current_time |-> 0,
    token |-> Unset, bearer |-> Unset,
    auth_posts |-> 0, search_gets |-> 0,
    held |-> "none", auth |-> "none", search |-> "none",
    cache_known |-> FALSE, cache_left |-> 0,
    tool |-> "none", targs |-> NoArgs, args |-> NoArgs, query |-> NoDict,
    tool_done |-> FALSE, ret_text |-> <<>>,
    ret_kind |-> "none", ret_token |-> None, ret_list |-> <<>>, ret_dict |-> NoDict ]

\* Bookkeeping of the provider's side for the token an instance holds: which
\* invocation's auth response each field was last written from ("init": the
\* constructor), whether the last write was a successful refresh, and, when
\* the response that carried the token stated an integer expires_in (known),
\* the instant the provider issued it and the instant it expires there.
NoGrant == [tok_from |-> "init", exp_from |-> "init", last_ok |-> FALSE,
            known |-> FALSE, issued |-> 0, until |-> 0]

\* AmadeusService.__init__ / HotelService.__init__: a fresh instance holds
\* no token and has sent nothing
Constructed ==
  /\ access_token = [s \in Services |-> None]
  /\ token_expires_at = [s \in Services |-> 0]
  /\ now = 0
  /\ calls = [c \in Calls |-> IdleCall]
  /\ grant = [s \in Services |-> NoGrant]
  /\ invocations = 0

\* os.getenv("AMADEUS_HOST", "test") when the variable is not set
DefaultHost == "test"

\* the program started without AMADEUS_HOST in its environment
Init ==
  /\ AMADEUS_HOST = DefaultHost
  /\ Constructed

\* variant: a held token is served whatever its expiry
NeedsRefresh_TokenOnly(tok, exp, current_time) == ~Truthy(tok)

(* --------------------------- _ensure_token ----------------------------- *)
\* variant: a token whose expiry instant has just been reached is still served
NeedsRefresh_Strict(tok, exp, current_time) ==
  ~Truthy(tok) \/ current_time > exp

\* `if not self.access_token or current_time >= self.token_expires_at`
NeedsRefresh(tok, exp, current_time) ==
  ~Truthy(tok) \/ current_time >= exp

\* variant: a refresh that finds a token in place keeps it and moves the
\* expiry only
EnsureTokenRefresh_KeepHeldToken(tok, exp, current_time, r) ==
  IF r.kind = "exception" THEN
    [access_token |-> tok, token_expires_at |-> exp, ret |-> None, wrote |-> "none"]
  ELSE IF r.status # HttpOk THEN
    [access_token |-> tok, token_expires_at |-> exp, ret |-> None, wrote |-> "none"]
  ELSE IF ~r.json_ok THEN
    [access_token |-> tok, token_expires_at |-> exp, ret |-> None, wrote |-> "none"]
  ELSE IF r.body.expires_in_kind = "non_numeric" THEN
    [access_token |-> r.body.access_token, token_expires_at |-> exp,
     ret |-> None, wrote |-> "token_only"]
  ELSE
    LET expires_in == IF r.body.expires_in_kind = "absent"
                      THEN DefaultExpiresIn ELSE r.body.expires_in
        kept == IF Truthy(tok) THEN tok ELSE r.body.access_token
    IN [access_token |-> kept,
        token_expires_at |-> current_time + expires_in - RefreshMargin,
        ret |-> kept, wrote |-> "both"]

\* variant: the expiry is computed from the clock at the time the response
\* arrives instead of the clock read at the start of the call
EnsureTokenRefresh_ClockAtResponse(tok, exp, current_time, r) ==
  IF r.kind = "exception" \/ r.status # HttpOk \/ ~r.json_ok THEN
    [access_token |-> tok, token_expires_at |-> exp, ret |-> None, wrote |-> "none"]
  ELSE IF r.body.expires_in_kind = "non_numeric" THEN
    [access_token |-> r.body.access_token, token_expires_at |-> exp,
     ret |-> None, wrote |-> "token_only"]
  ELSE
    LET expires_in == IF r.body.expires_in_kind = "absent"
                      THEN DefaultExpiresIn ELSE r.body.expires_in
    IN [access_token |-> r.body.access_token,
        token_expires_at |-> now + expires_in - RefreshMargin,
        ret |-> r.body.access_token, wrote |-> "both"]

\* variant: a refresh never shortens the expiry another refresh has stored
EnsureTokenRefresh_KeepLaterExpiry(tok, exp, current_time, r) ==
  IF r.kind = "exception" \/ r.status # HttpOk \/ ~r.json_ok THEN
    [access_token |-> tok, token_expires_at |-> exp, ret |-> None, wrote |-> "none"]
  ELSE IF r.body.expires_in_kind = "non_numeric" THEN
    [access_token |-> r.body.access_token, token_expires_at |-> exp,
     ret |-> None, wrote |-> "token_only"]
  ELSE
    LET expires_in == IF r.body.expires_in_kind = "absent"
                      THEN DefaultExpiresIn ELSE r.body.expires_in
        fresh == current_time + expires_in - RefreshMargin
    IN [access_token |-> r.body.access_token,
        token_expires_at |-> IF exp > fresh THEN exp ELSE fresh,
        ret |-> r.body.access_token, wrote |-> "both"]

\* variant: the token is kept until the instant the provider expires it
EnsureTokenRefresh_NoMargin(tok, exp, current_time, r) ==
  IF r.kind = "exception" \/ r.status # HttpOk \/ ~r.json_ok THEN
    [access_token |-> tok, token_expires_at |-> exp, ret |-> None, wrote |-> "none"]
  ELSE IF r.body.expires_in_kind = "non_numeric" THEN
    [access_token |-> r.body.access_token, token_expires_at |-> exp,
     ret |-> None, wrote |-> "token_only"]
  ELSE
    LET expires_in == IF r.body.expires_in_kind = "absent"
                      THEN DefaultExpiresIn ELSE r.body.expires_in
    IN [access_token |-> r.body.access_token,
        token_expires_at |-> current_time + expires_in,
        ret |-> r.body.access_token, wrote |-> "both"]

\* The body of the `try` once the auth POST has come back: the new values of
\* the two fields, the value _ensure_token returns, and which fields were
\* written ("both", "token_only", "none").
EnsureTokenRefresh(tok, exp, current_time, r) ==
  IF r.kind = "exception" THEN
    [access_token |-> tok, token_expires_at |-> exp, ret |-> None, wrote |-> "none"]
  ELSE IF r.status # HttpOk THEN
    [access_token |-> tok, token_expires_at |-> exp, ret |-> None, wrote |-> "none"]
  ELSE IF ~r.json_ok THEN
    \* response.json() raised, or result.get raised: nothing assigned yet
    [access_token |-> tok, token_expires_at |-> exp, ret |-> None, wrote |-> "none"]
  ELSE IF r.body.expires_in_kind = "non_numeric" THEN
    \* self.access_token is assigned, then current_time + expires_in raises
    [access_token |-> r.body.access_token, token_expires_at |-> exp,
     ret |-> None, wrote |-> "token_only"]
  ELSE
    LET expires_in == IF r.body.expires_in_kind = "absent"
                      THEN DefaultExpiresIn ELSE r.body.expires_in
    IN [access_token |-> r.body.access_token,
        token_expires_at |-> current_time + expires_in - RefreshMargin,
        ret |-> r.body.access_token, wrote |-> "both"]

(* ------------------------- search operations --------------------------- *)
\* variant: the auth failure is reported with an empty error text
NoTokenResult_EmptyError(op) ==
  IF op = "ensure_token" THEN [kind |-> "token", list |-> <<>>, dict |-> NoDict]
  ELSE IF op \in ListOps THEN [kind |-> "list", list |-> <<>>, dict |-> NoDict]
  ELSE [kind |-> "dict", list |-> <<>>, dict |-> [error |-> "", data |-> <<>>]]

\* the return statement after `if not access_token:`
NoTokenResult(op) ==
  IF op = "ensure_token" THEN [kind |-> "token", list |-> <<>>, dict |-> NoDict]
  ELSE IF op \in ListOps THEN [kind |-> "list", list |-> <<>>, dict |-> NoDict]
  ELSE [kind |-> "dict", list |-> <<>>,
        dict |-> [error |-> "Unable to get access token", data |-> <<>>]]

\* variant: the list-returning operations report a rejected search as the
\* dict-returning ones do
SearchResult_ListErrorObject(op, r) ==
  IF r.kind = "exception" THEN
    IF op \in ListOps THEN [kind |-> "list", list |-> <<>>, dict |-> NoDict]
    ELSE [kind |-> "dict", list |-> <<>>, dict |-> [error |-> r.msg, data |-> <<>>]]
  ELSE IF r.status = HttpOk THEN
    LET data == Get(r.body, "data", <<>>) IN
    IF op \in ListOps THEN [kind |-> "list", list |-> data, dict |-> NoDict]
    ELSE IF op = "search_flights" THEN
      [kind |-> "dict", list |-> <<>>,
       dict |-> [data |-> data, dictionaries |-> Get(r.body, "dictionaries", [none |-> TRUE])]]
    ELSE IF op = "search_hotels_by_city" THEN
      [kind |-> "dict", list |-> <<>>,
       dict |-> [data |-> data, meta |-> Get(r.body, "meta", [none |-> TRUE])]]
    ELSE [kind |-> "dict", list |-> <<>>, dict |-> [data |-> data]]
  ELSE [kind |-> "dict", list |-> <<>>, dict |-> [error |-> r.text, data |-> <<>>]]

\* variant: a successful result carries an empty error next to its data
SearchResult_ErrorKeyOnSuccess(op, r) ==
  IF r.kind = "exception" THEN
    IF op \in ListOps THEN [kind |-> "list", list |-> <<>>, dict |-> NoDict]
    ELSE [kind |-> "dict", list |-> <<>>, dict |-> [error |-> r.msg, data |-> <<>>]]
  ELSE IF r.status = HttpOk THEN
    LET data == Get(r.body, "data", <<>>) IN
    IF op \in ListOps THEN [kind |-> "list", list |-> data, dict |-> NoDict]
    ELSE IF op = "search_flights" THEN
      [kind |-> "dict", list |-> <<>>,
       dict |-> [data |-> data, error |-> "",
                 dictionaries |-> Get(r.body, "dictionaries", [none |-> TRUE])]]
    ELSE IF op = "search_hotels_by_city" THEN
      [kind |-> "dict", list |-> <<>>,
       dict |-> [data |-> data, error |-> "",
                 meta |-> Get(r.body, "meta", [none |-> TRUE])]]
    ELSE [kind |-> "dict", list |-> <<>>, dict |-> [data |-> data, error |-> ""]]
  ELSE
    IF op \in ListOps THEN [kind |-> "list", list |-> <<>>, dict |-> NoDict]
    ELSE [kind |-> "dict", list |-> <<>>, dict |-> [error |-> r.text, data |-> <<>>]]

\* variant: a non-200 answer is reported with a fixed text, not with its body
SearchResult_FixedText(op, r) ==
  IF r.kind = "exception" THEN
    IF op \in ListOps THEN [kind |-> "list", list |-> <<>>, dict |-> NoDict]
    ELSE [kind |-> "dict", list |-> <<>>, dict |-> [error |-> r.msg, data |-> <<>>]]
  ELSE IF r.status = HttpOk THEN
    LET data == Get(r.body, "data", <<>>) IN
    IF op \in ListOps THEN [kind |-> "list", list |-> data, dict |-> NoDict]
    ELSE IF op = "search_flights" THEN
      [kind |-> "dict", list |-> <<>>,
       dict |-> [data |-> data, dictionaries |-> Get(r.body, "dictionaries", [none |-> TRUE])]]
    ELSE IF op = "search_hotels_by_city" THEN
      [kind |-> "dict", list |-> <<>>,
       dict |-> [data |-> data, meta |-> Get(r.body, "meta", [none |-> TRUE])]]
    ELSE [kind |-> "dict", list |-> <<>>, dict |-> [data |-> data]]
  ELSE
    IF op \in ListOps THEN [kind |-> "list", list |-> <<>>, dict |-> NoDict]
    ELSE [kind |-> "dict", list |-> <<>>, dict |-> [error |-> "Search failed", data |-> <<>>]]

\* variant: an exception during the search is reported without an error key
SearchResult_NoErrorKey(op, r) ==
  IF r.kind = "exception" THEN
    IF op \in ListOps THEN [kind |-> "list", list |-> <<>>, dict |-> NoDict]
    ELSE [kind |-> "dict", list |-> <<>>, dict |-> [data |-> <<>>]]
  ELSE IF r.status = HttpOk THEN
    LET data == Get(r.body, "data", <<>>) IN
    IF op \in ListOps THEN [kind |-> "list", list |-> data, dict |-> NoDict]
    ELSE IF op = "search_flights" THEN
      [kind |-> "dict", list |-> <<>>,
       dict |-> [data |-> data, dictionaries |-> Get(r.body, "dictionaries", [none |-> TRUE])]]
    ELSE IF op = "search_hotels_by_city" THEN
      [kind |-> "dict", list |-> <<>>,
       dict |-> [data |-> data, meta |-> Get(r.body, "meta", [none |-> TRUE])]]
    ELSE [kind |-> "dict", list |-> <<>>, dict |-> [data |-> data]]
  ELSE
    IF op \in ListOps THEN [kind |-> "list", list |-> <<>>, dict |-> NoDict]
    ELSE [kind |-> "dict", list |-> <<>>, dict |-> [error |-> r.text, data |-> <<>>]]

\* variant: the `except` clause around the search GET lets the exception go
\* on to the caller
SearchResult_Reraise(op, r) ==
  IF r.kind = "exception" THEN [kind |-> "raised", list |-> <<>>, dict |-> NoDict]
  ELSE IF r.status = HttpOk THEN
    LET data == Get(r.body, "data", <<>>) IN
    IF op \in ListOps THEN [kind |-> "list", list |-> data, dict |-> NoDict]
    ELSE IF op = "search_flights" THEN
      [kind |-> "dict", list |-> <<>>,
       dict |-> [data |-> data, dictionaries |-> Get(r.body, "dictionaries", [none |-> TRUE])]]
    ELSE IF op = "search_hotels_by_city" THEN
      [kind |-> "dict", list |-> <<>>,
       dict |-> [data |-> data, meta |-> Get(r.body, "meta", [none |-> TRUE])]]
    ELSE [kind |-> "dict", list |-> <<>>, dict |-> [data |-> data]]
  ELSE
    IF op \in ListOps THEN [kind |-> "list", list |-> <<>>, dict |-> NoDict]
    ELSE [kind |-> "dict", list |-> <<>>, dict |-> [error |-> r.text, data |-> <<>>]]

\* the three return statements of the `try` around the search GET
SearchResult(op, r) ==
  IF r.kind = "exception" THEN
    IF op \in ListOps THEN [kind |-> "list", list |-> <<>>, dict |-> NoDict]
    ELSE [kind |-> "dict", list |-> <<>>, dict |-> [error |-> r.msg, data |-> <<>>]]
  ELSE IF r.status = HttpOk THEN
    LET data == Get(r.body, "data", <<>>) IN
    IF op \in ListOps THEN [kind |-> "list", list |-> data, dict |-> NoDict]
    ELSE IF op = "search_flights" THEN
      [kind |-> "dict", list |-> <<>>,
       dict |-> [data |-> data, dictionaries |-> Get(r.body, "dictionaries", [none |-> TRUE])]]
    ELSE IF op = "search_hotels_by_city" THEN
      [kind |-> "dict", list |-> <<>>,
       dict |-> [data |-> data, meta |-> Get(r.body, "meta", [none |-> TRUE])]]
    ELSE [kind |-> "dict", list |-> <<>>, dict |-> [data |-> data]]
  ELSE
    IF op \in ListOps THEN [kind |-> "list", list |-> <<>>, dict |-> NoDict]
    ELSE [kind |-> "dict", list |-> <<>>, dict |-> [error |-> r.text, data |-> <<>>]]

\* variant: the operation does not test the token before its GET
SendsSearch_NoCheck(op, token) == op \in SearchOps

\* `if not access_token: return ...`: does the operation go on to its GET?
SendsSearch(op, token) == op \in SearchOps /\ Truthy(token)

\* variant: an operation whose token step returned nothing goes on with the
\* token the instance holds, if another refresh has stored one
AfterToken_UseHeld(call, token) ==
  IF SendsSearch(call.op, token) THEN
    [call EXCEPT !.pc = "search_wait", !.token = token, !.bearer = token,
                 !.query = QueryOf(call.op, call.args),
                 !.search_gets = call.search_gets + 1]
  ELSE IF call.op \in SearchOps /\ Truthy(access_token[call.svc]) THEN
    [call EXCEPT !.pc = "search_wait", !.token = token,
                 !.bearer = access_token[call.svc],
                 !.query = QueryOf(call.op, call.args),
                 !.search_gets = call.search_gets + 1]
  ELSE
    LET res == NoTokenResult(call.op) IN
    [call EXCEPT !.pc = "done", !.token = token,
                 !.ret_kind = res.kind,
                 !.ret_token = IF call.op = "ensure_token" THEN token ELSE None,
                 !.ret_list = res.list, !.ret_dict = res.dict]

\* variant: an operation whose token step failed asks for a token once more
AfterToken_Retry(call, token) ==
  IF SendsSearch(call.op, token) THEN
    [call EXCEPT !.pc = "search_wait", !.token = token, !.bearer = token,
                 !.query = QueryOf(call.op, call.args),
                 !.search_gets = call.search_gets + 1]
  ELSE IF call.op \in SearchOps /\ call.auth_posts = 1 THEN
    [call EXCEPT !.pc = "auth_wait", !.auth_posts = call.auth_posts + 1]
  ELSE
    LET res == NoTokenResult(call.op) IN
    [call EXCEPT !.pc = "done", !.token = token,
                 !.ret_kind = res.kind,
                 !.ret_token = IF call.op = "ensure_token" THEN token ELSE None,
                 !.ret_list = res.list, !.ret_dict = res.dict]

\* What an invocation does once _ensure_token has returned `token`: either
\* it returns at once, or it sends its search GET with that bearer.
AfterToken(call, token) ==
  IF SendsSearch(call.op, token) THEN
    [call EXCEPT !.pc = "search_wait", !.token = token, !.bearer = token,
                 !.query = QueryOf(call.op, call.args),
                 !.search_gets = call.search_gets + 1]
  ELSE
    LET res == NoTokenResult(call.op) IN
    [call EXCEPT !.pc = "done", !.token = token,
                 !.ret_kind = res.kind,
                 !.ret_token = IF call.op = "ensure_token" THEN token ELSE None,
                 !.ret_list = res.list, !.ret_dict = res.dict]

(* --------------------------- tool responses ---------------------------- *)
\* The str a tool returns is the sequence of the pieces it was built from,
\* one per `response += f"..."` statement or return expression: the kind
\* names the literal text of the piece, ord is the ordinal it prints (0 when
\* it prints none), a and b are the values it interpolates and text a
\* character sequence it interpolates.
Piece(kind, ord, a, b, text) ==
  [kind |-> kind, ord |-> ord, a |-> a, b |-> b, text |-> text]

\* the length at which a room description is cut
DescLimit == 100
Ellipsis == <<".", ".", ".">>

\* str[:n]
Slice(str, n) == SubSeq(str, 1, IF Len(str) < n THEN Len(str) ELSE n)

\* variant: a description of exactly DescLimit characters gets the ellipsis
Description_EllipsisAtLimit(room_desc) ==
  Slice(room_desc, DescLimit) \o (IF Len(room_desc) >= DescLimit THEN Ellipsis ELSE <<>>)

\* `{room_desc[:100]}{'...' if len(room_desc) > 100 else ''}`
Description(room_desc) ==
  Slice(room_desc, DescLimit) \o (IF Len(room_desc) > DescLimit THEN Ellipsis ELSE <<>>)

NoDescription ==
  <<"N", "o", " ", "d", "e", "s", "c", "r", "i", "p", "t", "i", "o", "n">>

\* the six pieces of offer j of a hotel
OfferPieces(offer, j) ==
  LET room == Get(offer, "room", <<>>)
      room_desc == Get(Get(room, "description", <<>>), "text", NoDescription)
      price == Get(offer, "price", <<>>)
      policies == Get(offer, "policies", <<>>)
      cancellation == Get(policies, "cancellation", <<>>)
  IN << Piece("  Offer {j+1}:", j, "", "", <<>>),
        Piece("  - Room Type: {room_type}", 0, Get(room, "type", "Unknown"), "", <<>>),
        Piece("  - Description: {room_desc}", 0, "", "", Description(room_desc)),
        Piece("  - Price: {total_price} {currency_code}", 0,
              Get(price, "total", "Unknown"), Get(price, "currency", "EUR"), <<>>),
        Piece("  - Payment Type: {payment_type}", 0,
              Get(policies, "paymentType", "Unknown"), "", <<>>),
        Piece("  - Cancellation Policy: {cancellation_desc}", 0,
              Get(Get(cancellation, "description", <<>>), "text",
                  "No cancellation policy information"), "", <<>>) >>

RECURSIVE OffersFrom(_, _)
\* the inner loop `for j, offer in enumerate(offers)`, from offer j on
OffersFrom(offers, j) ==
  IF j > Len(offers) THEN <<>>
  ELSE OfferPieces(offers[j], j) \o OffersFrom(offers, j + 1)

Separator == Piece("---", 0, "", "", <<>>)

\* One pass of the loop `for i, hotel_data in enumerate(hotels)` of
\* search_hotels, for the i-th of n hotels (counted from 1): a hotel that is
\* not available ends its pass at `continue`, before the separator.
OfferHotelPieces(hotel_data, i, n) ==
  LET hotel == Get(hotel_data, "hotel", <<>>)
      offers == Get(hotel_data, "offers", <<>>)
  IN << Piece("Hotel {i+1}: {hotel_name} ({hotel_id})", i,
              Get(hotel, "name", "Unknown Hotel"), Get(hotel, "hotelId", "Unknown ID"), <<>>),
        Piece("City Code: {city_code}", 0, Get(hotel, "cityCode", ""), "", <<>>) >>
     \o (IF ~Get(hotel_data, "available", FALSE)
         THEN << Piece("Status: Sold out", 0, "", "", <<>>) >>
         ELSE << Piece("Found {len(offers)} offers:", Len(offers), "", "", <<>>) >>
              \o OffersFrom(offers, 1)
              \o (IF i < n THEN << Separator >> ELSE <<>>))

\* one pass of the loop `for i, hotel in enumerate(hotels)` of
\* search_hotels_by_city
CityHotelPieces(hotel, i, n) ==
  LET geo_code == Get(hotel, "geoCode", <<>>)
      distance == Get(hotel, "distance", <<>>)
  IN << Piece("Hotel {i+1}: {hotel_name}", i, Get(hotel, "name", "Unknown Hotel"), "", <<>>),
        Piece("ID: {hotel_id}", 0, Get(hotel, "hotelId", "Unknown ID"), "", <<>>),
        Piece("Chain Code: {chain_code}", 0, Get(hotel, "chainCode", ""), "", <<>>),
        Piece("IATA Code: {iata_code}", 0, Get(hotel, "iataCode", ""), "", <<>>),
        Piece("Location: Latitude {latitude}, Longitude {longitude}", 0,
              Get(geo_code, "latitude", "Unknown"), Get(geo_code, "longitude", "Unknown"), <<>>),
        Piece("Country: {country_code}", 0,
              Get(Get(hotel, "address", <<>>), "countryCode", ""), "", <<>>),
        Piece("Distance: {distance_value} {distance_unit_val}", 0,
              Get(distance, "value", "Unknown"), Get(distance, "unit", "KM"), <<>>) >>
     \o (IF i < n THEN << Separator >> ELSE <<>>)

RECURSIVE HotelsFrom(_, _, _)
\* the outer loop of either tool, from hotel i on
HotelsFrom(tool, hotels, i) ==
  IF i > Len(hotels) THEN <<>>
  ELSE (IF tool = "search_hotels"
        THEN OfferHotelPieces(hotels[i], i, Len(hotels))
        ELSE CityHotelPieces(hotels[i], i, Len(hotels)))
       \o HotelsFrom(tool, hotels, i + 1)

\* variant: the tool does not look for an error in the result
ToolText_IgnoresError(tool, targs, args, hotel_results) ==
  LET hotels == Get(hotel_results, "data", <<>>) IN
  IF hotels = <<>> THEN
    IF tool = "search_hotels"
    THEN << Piece("No hotel offers found matching your criteria.", 0, "", "", <<>>) >>
    ELSE << Piece("No hotels found in city '{city}' ({city_code}).", 0, "", "", targs.city) >>
  ELSE
    << Piece(IF tool = "search_hotels"
             THEN "Found {len(hotels)} hotels in {city} from {check_in_date} to {check_out_date}:"
             ELSE "Found {len(hotels)} hotels near {city} ({city_code}) within {radius}{radius_unit} radius:",
             Len(hotels), "", "", targs.city) >>
    \o HotelsFrom(tool, hotels, 1)

\* What a tool returns once its service call has returned hotel_results
\* (lines 185-229 and 298-356).
ToolText(tool, targs, args, hotel_results) ==
  IF "error" \in DOMAIN hotel_results THEN
    << Piece("Hotel search failed: {error}", 0, hotel_results.error, "", <<>>) >>
  ELSE
    LET hotels == Get(hotel_results, "data", <<>>) IN
    IF hotels = <<>> THEN
      IF tool = "search_hotels"
      THEN << Piece("No hotel offers found matching your criteria.", 0, "", "", <<>>) >>
      ELSE << Piece("No hotels found in city '{city}' ({city_code}).", 0, "", "", targs.city) >>
    ELSE
      << Piece(IF tool = "search_hotels"
               THEN "Found {len(hotels)} hotels in {city} from {check_in_date} to {check_out_date}:"
               ELSE "Found {len(hotels)} hotels near {city} ({city_code}) within {radius}{radius_unit} radius:",
               Len(hotels), "", "", targs.city) >>
      \o HotelsFrom(tool, hotels, 1)

\* a tool call goes on when its service call has returned: it formats the
\* result and returns the text
ToolReturn(call) ==
  IF call.tool = "none" \/ call.pc # "done" THEN call
  ELSE [call EXCEPT !.tool_done = TRUE,
                    !.ret_text = ToolText(call.tool, call.targs, call.args, call.ret_dict)]

\* what the instance holds when an invocation reads the clock
HeldAtStart(tok, exp, current_time) ==
  IF ~Truthy(tok) THEN "no_token"
  ELSE IF current_time >= exp THEN "expired" ELSE "usable"

\* variant: the token fields are attributes of one object shared by both
\* services
Self_Shared(s) == "amadeus"

\* `self` in a method of instance s: the object whose access_token and
\* token_expires_at the method reads and writes, which __init__ created
Self(s) == s

\* variant: a search endpoint's 401 drops the token from the cache
CacheAfterSearch_DropRejected(tok, exp, r) ==
  IF r.kind = "response" /\ r.status = 401
  THEN [access_token |-> None, token_expires_at |-> 0]
  ELSE [access_token |-> tok, token_expires_at |-> exp]

\* The token fields after the search step: the statements that follow
\* `headers = {"Authorization": ...}` assign neither field, whatever the
\* search endpoint answers.
CacheAfterSearch(tok, exp, r) == [access_token |-> tok, token_expires_at |-> exp]

(* ------------------------------ actions -------------------------------- *)
\* variant: the instance serves one invocation at a time, a new one is not
\* entered while another waits for an HTTP exchange
Enters_Serialized(c) ==
  /\ calls[c].pc = "idle"
  /\ invocations < Len(CallOrder)
  /\ c = CallOrder[invocations + 1]
  /\ \A d \in Calls : calls[d].pc \notin {"auth_wait", "search_wait"}

\* coroutine c is the next one to be started
Enters(c) ==
  /\ calls[c].pc = "idle"
  /\ invocations < Len(CallOrder)
  /\ c = CallOrder[invocations + 1]

\* Operation op of instance s is entered with arguments args, directly
\* (tool = "none") or from a tool called with targs, and runs to its first
\* suspension point: it reads the clock, and either takes the held token or
\* sends the auth POST.
Start(c, op, s, tool, targs, args) ==
  /\ Enters(c)
  /\ invocations' = invocations + 1
  /\ op \in SearchOps => s = ServiceOf(op)
  /\ LET h == Self(s)
         entered == [IdleCall EXCEPT !.op = op, !.svc = s, !.current_time = now,
                                     !.tool = tool, !.targs = targs, !.args = args,
                                     !.held = HeldAtStart(access_token[h],
                                                          token_expires_at[h], now)]
     IN IF NeedsRefresh(access_token[h], token_expires_at[h], now)
        THEN calls' = [calls EXCEPT ![c] =
                         [entered EXCEPT !.pc = "auth_wait", !.auth_posts = 1]]
        ELSE calls' = [calls EXCEPT ![c] =
                         AfterToken([entered EXCEPT !.auth = "cached",
                                                    !.cache_known = grant[h].known,
                                                    !.cache_left = grant[h].until - now],
                                    access_token[h])]
  /\ UNCHANGED <<access_token, token_expires_at, now, grant, AMADEUS_HOST>>

\* an operation is invoked by a caller whose arguments are not under study
Invoke(c, op, s) == Start(c, op, s, "none", NoArgs, SampleArgs(op))

\* HotelService.search_hotel_offers(**a) and search_hotels_by_city(**a)
\* called directly
InvokeOffers(c, a) == Start(c, "search_hotel_offers", "hotel", "none", NoArgs, a)
InvokeByCity(c, a) == Start(c, "search_hotels_by_city", "hotel", "none", NoArgs, a)

\* a tool returns text before it has called the service
ReturnText(c, tool, t, text) ==
  /\ Enters(c)
  /\ invocations' = invocations + 1
  /\ calls' = [calls EXCEPT ![c] =
                 [IdleCall EXCEPT !.pc = "done", !.op = "none", !.svc = "hotel",
                                  !.current_time = now, !.tool = tool, !.targs = t,
                                  !.tool_done = TRUE, !.ret_text = text]]
  /\ UNCHANGED <<access_token, token_expires_at, now, grant, AMADEUS_HOST>>

\* The tool search_hotels(**t) up to its first suspension point: it looks up
\* the hotel IDs of the city and returns at once if there are none, maps
\* the board type, fills in the check-out date, and enters
\* hotel_service.search_hotel_offers.
search_hotels(c, t) ==
  /\ Enters(c)
  /\ LET hotel_ids == hotel_ids_for(t.city)
         board_type_processed ==
           IF TruthyOpt(t.board_type)
           THEN Given(DictGet(BOARD_TYPE_MAPPING, lower(t.board_type.v), t.board_type.v))
           ELSE Omitted
         check_in_dt == strptime(t.check_in_date)
     IN IF NoHotelInformation(hotel_ids) THEN
          ReturnText(c, "search_hotels", t,
            << Piece("No hotel information found for city '{city}'.", 0, "", "", t.city) >>)
        ELSE IF ~TruthyOpt(t.check_out_date) /\ ~check_in_dt.ok THEN
          \* strptime raised ValueError inside the try
          ReturnText(c, "search_hotels", t,
            << Piece("An error occurred while searching for hotels: {str(e)}", 0,
                     "time data does not match format", "", t.check_in_date) >>)
        ELSE
          LET check_out_date == IF TruthyOpt(t.check_out_date) THEN t.check_out_date.v
                                ELSE strftime(plus_one_day(check_in_dt))
          IN Start(c, "search_hotel_offers", "hotel", "search_hotels",
                   t,
                   [OfferDefaults EXCEPT !.hotel_ids = hotel_ids,
                                         !.check_in_date = t.check_in_date,
                                         !.check_out_date = Given(check_out_date),
                                         !.adults = t.adults,
                                         !.room_quantity = t.room_quantity,
                                         !.price_range = t.price_range,
                                         !.currency = t.currency,
                                         !.board_type = board_type_processed])

\* The tool search_hotels_by_city(**t) up to its first suspension point: it
\* looks up the city code and enters hotel_service.search_hotels_by_city.
search_hotels_by_city(c, t) ==
  /\ Enters(c)
  /\ LET city_code == city_code_for(t.city)
     IN Start(c, "search_hotels_by_city", "hotel", "search_hotels_by_city", t,
              [CityDefaults EXCEPT !.city_code = city_code,
                                   !.radius = t.radius,
                                   !.radius_unit = t.radius_unit,
                                   !.amenities = t.amenities,
                                   !.ratings = t.ratings])

\* instants at which the provider may have issued the token of a response
\* received now to a request sent at current_time
IssueTimes(current_time) == {t \in current_time..now : (t - current_time) % TickStep = 0}

\* The auth POST of invocation c comes back with r, carrying a token the
\* provider issued at some instant since the request; _ensure_token finishes
\* and the operation runs to its next suspension point or to its return.
AuthRespond(c, r) ==
  /\ calls[c].pc = "auth_wait"
  /\ \E issued \in IssueTimes(calls[c].current_time) :
     LET s == Self(calls[c].svc)
         e == EnsureTokenRefresh(access_token[s], token_expires_at[s],
                                 calls[c].current_time, r)
     IN /\ access_token' = [access_token EXCEPT ![s] = e.access_token]
        /\ token_expires_at' = [token_expires_at EXCEPT ![s] = e.token_expires_at]
        /\ calls' = [calls EXCEPT ![c] =
                       ToolReturn(AfterToken([calls[c] EXCEPT !.auth = AuthOutcome(r)],
                                             e.ret))]
        /\ grant' = [grant EXCEPT ![s] =
             IF e.wrote = "none" THEN grant[s]
             ELSE [ tok_from |-> c,
                    exp_from |-> IF e.wrote = "both" THEN c ELSE grant[s].exp_from,
                    last_ok |-> e.wrote = "both" /\ Truthy(e.ret),
                    known |-> r.body.expires_in_kind = "int",
                    issued |-> IF r.body.expires_in_kind = "int" THEN issued ELSE 0,
                    until |-> IF r.body.expires_in_kind = "int"
                              THEN issued + r.body.expires_in ELSE 0 ]]
  /\ UNCHANGED <<now, invocations, AMADEUS_HOST>>

\* The search GET of invocation c comes back with r and the operation returns.
SearchRespond(c, r) ==
  /\ calls[c].pc = "search_wait"
  /\ LET s == Self(calls[c].svc)
         res == SearchResult(calls[c].op, r)
         kept == CacheAfterSearch(access_token[s], token_expires_at[s], r)
     IN /\ calls' = [calls EXCEPT ![c] =
                       ToolReturn(
                         [calls[c] EXCEPT !.pc = "done", !.search = SearchOutcome(r),
                                          !.ret_kind = res.kind,
                                          !.ret_list = res.list, !.ret_dict = res.dict])]
        /\ access_token' = [access_token EXCEPT ![s] = kept.access_token]
        /\ token_expires_at' = [token_expires_at EXCEPT ![s] = kept.token_expires_at]
  /\ UNCHANGED <<now, grant, invocations, AMADEUS_HOST>>

\* time passes
Tick ==
  /\ now + TickStep <= MaxTime
  /\ now' = now + TickStep
  /\ UNCHANGED <<access_token, token_expires_at, calls, grant, invocations, AMADEUS_HOST>>

\* Every operation, against a provider that may answer anything.
Next ==
  \/ \E c \in Calls, op \in Ops, s \in Services : Invoke(c, op, s)
  \/ \E c \in Calls, r \in AuthResponses : AuthRespond(c, r)
  \/ \E c \in Calls, r \in SearchResponses : SearchRespond(c, r)
  \/ Tick

Spec == Init /\ [][Next]_vars

\* the first two invocations
TwoCalls == {CallOrder[1], CallOrder[2]}

\* The token cache under every auth answer: _ensure_token called directly on
\* either instance and through one search operation, whose search endpoint
\* either answers 200 or rejects the request.
CacheOps == {"ensure_token", "search_flights"}
CacheSearchResponses ==
  {r \in SearchResponses :
     \/ r.status = HttpOk /\ "dictionaries" \in DOMAIN r.body
     \/ r.status = 401 /\ r.text # ""}
NextCache ==
  \/ \E c \in TwoCalls, op \in CacheOps, s \in Services : Invoke(c, op, s)
  \/ \E c \in TwoCalls, r \in AuthResponses : AuthRespond(c, r)
  \/ \E c \in TwoCalls, r \in CacheSearchResponses : SearchRespond(c, r)
  \/ Tick

SpecCache == Init /\ [][NextCache]_vars

\* Every operation under every search answer, against an auth endpoint that
\* fails, or answers 200 with one of two tokens or with an empty one.
OpsAuthResponses ==
  {r \in AuthResponses :
     \/ r.kind = "exception"
     \/ r.status # HttpOk
     \/ r.json_ok /\ r.body.expires_in_kind = "int" /\ r.body.expires_in = 90
                  /\ r.body.access_token # None}
NextOps ==
  \/ \E c \in TwoCalls, op \in Ops, s \in Services : Invoke(c, op, s)
  \/ \E c \in TwoCalls, r \in OpsAuthResponses : AuthRespond(c, r)
  \/ \E c \in TwoCalls, r \in SearchResponses : SearchRespond(c, r)
  \/ Tick

SpecOps == Init /\ [][NextOps]_vars

\* The race for the token: three direct _ensure_token calls on one instance,
\* so that two of them can overlap after the token a first one stored has
\* expired.
RaceOps == {"ensure_token"}
RaceServices == {"hotel"}
NextRace ==
  \/ \E c \in Calls, op \in RaceOps, s \in RaceServices : Invoke(c, op, s)
  \/ \E c \in Calls, r \in AuthResponses : AuthRespond(c, r)
  \/ Tick

SpecRace == Init /\ [][NextRace]_vars

\* Every operation under every auth answer and every search answer, at one
\* instant.
NextServe ==
  \/ \E c \in TwoCalls, op \in Ops, s \in Services : Invoke(c, op, s)
  \/ \E c \in TwoCalls, r \in AuthResponses : AuthRespond(c, r)
  \/ \E c \in TwoCalls, r \in SearchResponses : SearchRespond(c, r)

SpecServe == Init /\ [][NextServe]_vars

\* check-in dates a caller may pass: a day inside a month, the last day of
\* a year, of a 30-day month and of February in leap, common and century
\* years, a date without zero padding, and three that strptime rejects (a
\* day the month does not have, another separator, a word)
ParsableDates ==
  { <<"2", "0", "2", "5", "-", "0", "7", "-", "0", "1">>,
    <<"2", "0", "2", "5", "-", "1", "2", "-", "3", "1">>,
    <<"2", "0", "2", "4", "-", "0", "2", "-", "2", "8">>,
    <<"2", "0", "2", "4", "-", "0", "2", "-", "2", "9">>,
    <<"2", "0", "2", "5", "-", "0", "2", "-", "2", "8">>,
    <<"1", "9", "0", "0", "-", "0", "2", "-", "2", "8">>,
    <<"2", "0", "0", "0", "-", "0", "2", "-", "2", "8">>,
    <<"2", "0", "2", "5", "-", "0", "4", "-", "3", "0">>,
    <<"2", "0", "2", "5", "-", "7", "-", "1">> }
UnparsableDates ==
  { <<"2", "0", "2", "5", "-", "0", "2", "-", "3", "0">>,
    <<"2", "0", "2", "5", "/", "0", "7", "/", "0", "1">>,
    <<"t", "o", "m", "o", "r", "r", "o", "w">> }
CheckOutDates == {Omitted, Given(<<>>), Given(<<"2", "0", "2", "5", "-", "0", "7", "-", "0", "5">>)}
HotelIdLists == {<<>>, <<"MCLONGHM">>, <<"HSLONROT", "MCLONGHM">>, <<"A", "B", "C">>}
OptionalLists == {Omitted, Given(<<>>), Given(<<"WIFI">>), Given(<<"SPA", "POOL">>)}
OptionalTexts == {None, "", "100-200"}
Currencies == {None, "", "USD"}
BoardTypes == {Omitted, Given(<<"H", "a", "l", "f", " ", "B", "o", "a", "r", "d">>), Given(<<"B", "E", "D">>)}

\* arguments of direct calls of the two hotel operations
QueryOfferArgs ==
  { [OfferDefaults EXCEPT !.hotel_ids = ids, !.check_in_date = ci, !.check_out_date = co,
                          !.price_range = pr, !.currency = cu,
                          !.include_closed = ic, !.best_rate_only = br] :
      ids \in HotelIdLists, ci \in {<<"2", "0", "2", "5", "-", "0", "7", "-", "0", "1">>, <<"2", "0", "2", "5", "-", "1", "2", "-", "3", "1">>},
      co \in CheckOutDates, pr \in OptionalTexts, cu \in Currencies,
      ic \in BOOLEAN, br \in BOOLEAN }
QueryCityArgs ==
  { [CityDefaults EXCEPT !.chain_codes = cc, !.amenities = am, !.ratings = ra] :
      cc \in OptionalLists, am \in OptionalLists, ra \in OptionalLists }
\* arguments of the tool search_hotels
QueryToolArgs ==
  { [city |-> ci, check_in_date |-> d, check_out_date |-> co, adults |-> 2,
     room_quantity |-> 1, price_range |-> pr, currency |-> cu, board_type |-> bt] :
      ci \in {<<"L", "o", "n", "d", "o", "n">>, <<"n", "e", "w", " ", "y", "o", "r", "k">>},
      d \in ParsableDates \cup UnparsableDates, co \in CheckOutDates,
      pr \in OptionalTexts, cu \in Currencies, bt \in BoardTypes }
QueryAuthResponses ==
  {r \in OpsAuthResponses : r.kind = "response" /\ r.body.access_token \in {None, "T1"}}
QuerySearchResponses ==
  {r \in SearchResponses : r.kind = "response" /\ r.text = "" /\ r.status # 500
                             /\ Get(r.body, "data", <<>>) = <<>>}
OneCall == {CallOrder[1]}

\* The outgoing queries of the hotel operations, called directly and from
\* the tool search_hotels, over the arguments above.
NextQuery ==
  \/ \E c \in OneCall, a \in QueryOfferArgs : InvokeOffers(c, a)
  \/ \E c \in OneCall, a \in QueryCityArgs : InvokeByCity(c, a)
  \/ \E c \in OneCall, t \in QueryToolArgs : search_hotels(c, t)
  \/ \E c \in OneCall, r \in QueryAuthResponses : AuthRespond(c, r)
  \/ \E c \in OneCall, r \in QuerySearchResponses : SearchRespond(c, r)

SpecQuery == Init /\ [][NextQuery]_vars

\* city arguments: every key of the two tables as it is written there, and
\* other spellings, unknown names and the empty string
OtherSpellings ==
  { <<"L", "o", "n", "d", "o", "n">>,
    <<"N", "E", "W", " ", "Y", "O", "R", "K">>,
    <<"l", " ", "o", "n">>,
    <<"L", "o", "N">>,
    <<"H", "o", "n", "g", " ", " ", "K", "o", "n", "g">>,
    <<"A", "t", "l", "a", "n", "t", "i", "s">>,
    <<"f", "o", "o", " ", "b", "a", "r">>,
    <<"B", "e", "r", "l", "i", "n">>,
    <<>> }
CityInputs == Keys(HOTEL_ID_MAPPING) \cup Keys(CITY_CODE_MAPPING) \cup OtherSpellings
ResolveToolArgs ==
  { [city |-> ci, check_in_date |-> OfferDefaults.check_in_date, check_out_date |-> Omitted,
     adults |-> 1, room_quantity |-> 1, price_range |-> None, currency |-> None,
     board_type |-> Omitted] : ci \in CityInputs }
ResolveCityArgs ==
  { [city |-> ci, radius |-> 5, radius_unit |-> "KM", amenities |-> Omitted,
     ratings |-> Omitted] : ci \in CityInputs }

\* The two tools over every city argument, after or while a direct
\* _ensure_token call on the hotel instance fills the token cache.
NextResolve ==
  \/ \E c \in {CallOrder[1]}, op \in RaceOps, s \in RaceServices : Invoke(c, op, s)
  \/ \E c \in {CallOrder[2]}, t \in ResolveToolArgs : search_hotels(c, t)
  \/ \E c \in {CallOrder[2]}, t \in ResolveCityArgs : search_hotels_by_city(c, t)
  \/ \E c \in TwoCalls, r \in QueryAuthResponses : AuthRespond(c, r)
  \/ \E c \in TwoCalls, r \in QuerySearchResponses : SearchRespond(c, r)

SpecResolve == Init /\ [][NextResolve]_vars

\* longest hotel list a search response carries
MaxHotels == 3

\* a room description of n characters
DescText(n) == [i \in 1..n |-> Digits[(i % 10) + 1]]
\* offers of a hotel-offers response: a description of n characters, or none
OfferOf(id, n, total, cur) ==
  [ id |-> id,
    room |-> [type |-> "STANDARD_ROOM", description |-> [text |-> DescText(n)]],
    price |-> [currency |-> cur, total |-> total],
    policies |-> [paymentType |-> "guarantee"] ]
OfferNoDescription ==
  [ id |-> "O9", room |-> [type |-> "SUITE"], price |-> [total |-> "310.00"] ]
\* hotels of a hotel-offers response: sold out, available with offers whose
\* descriptions are shorter than, as long as and longer than DescLimit,
\* available with no offers key, and one with no availability stated
OfferHotelRecords ==
  { [ hotel |-> [name |-> "Savoy", hotelId |-> "MCLONGHM", cityCode |-> "LON"],
      available |-> FALSE ],
    [ hotel |-> [name |-> "Rotunda", hotelId |-> "HSLONROT", cityCode |-> "LON"],
      available |-> TRUE,
      offers |-> << OfferOf("O1", DescLimit, "120.50", "GBP"),
                    OfferOf("O2", DescLimit + 1, "99.00", "USD") >> ],
    [ hotel |-> [name |-> "Strand", hotelId |-> "XXLONSTR"],
      available |-> TRUE,
      offers |-> << OfferOf("O3", DescLimit + 50, "80.00", "EUR"),
                    OfferNoDescription,
                    OfferOf("O4", 0, "75.00", "GBP"),
                    OfferOf("O5", DescLimit - 1, "70.00", "GBP") >> ],
    [ hotel |-> [name |-> "Empty", hotelId |-> "XXLONEMP"], available |-> TRUE ],
    [ offers |-> << OfferOf("O6", 5, "60.00", "GBP") >> ] }
\* hotels of a hotels-by-city response
CityHotelRecords ==
  { [ name |-> "Savoy", hotelId |-> "MCLONGHM", chainCode |-> "MC", iataCode |-> "LON",
      geoCode |-> [latitude |-> "51.5", longitude |-> "-0.12"],
      address |-> [countryCode |-> "GB"], distance |-> [value |-> "0.4", unit |-> "KM"] ],
    [ hotelId |-> "HSLONROT" ] }
HotelLists(records) ==
  UNION { [1..n -> records] : n \in 0..MaxHotels }
FormatSearchResponses ==
  {[kind |-> "response", status |-> HttpOk, msg |-> "", text |-> "", body |-> [data |-> hs]] :
          hs \in HotelLists(OfferHotelRecords) \cup HotelLists(CityHotelRecords)}
  \cup {r \in SearchResponses : r.status # HttpOk /\ r.text # "" /\ r.status # 500}
FormatToolArgs ==
  {t \in ResolveToolArgs : t.city \in {<<"L", "o", "n", "d", "o", "n">>, <<"r", "o", "m", "e">>}}
FormatCityArgs ==
  {t \in ResolveCityArgs : t.city \in {<<"L", "o", "n", "d", "o", "n">>}}

\* The two tools up to the text they return, over hotel lists of every
\* mix of the records above.
NextFormat ==
  \/ \E c \in OneCall, t \in FormatToolArgs : search_hotels(c, t)
  \/ \E c \in OneCall, t \in FormatCityArgs : search_hotels_by_city(c, t)
  \/ \E c \in OneCall, r \in QueryAuthResponses : AuthRespond(c, r)
  \/ \E c \in OneCall, r \in FormatSearchResponses : SearchRespond(c, r)

SpecFormat == Init /\ [][NextFormat]_vars

(* ------------------------------ endpoints ------------------------------ *)
\* str.replace(old, new): every occurrence of old, from the left and without
\* overlap, becomes new
RECURSIVE replace(_, _, _)
replace(s, old, new) ==
  IF Len(s) < Len(old) THEN s
  ELSE IF SubSeq(s, 1, Len(old)) = old
       THEN new \o replace(SubSeq(s, Len(old) + 1, Len(s)), old, new)
       ELSE <<Head(s)>> \o replace(Tail(s), old, new)

\* the endpoint literals of the two service modules, as written
Declared_AUTH_ENDPOINT ==
  << "h", "t", "t", "p", "s", ":", "/", "/", "t", "e", "s", "t", ".", "a",
     "p", "i", ".", "a", "m", "a", "d", "e", "u", "s", ".", "c", "o", "m",
     "/", "v", "1", "/", "s", "e", "c", "u", "r", "i", "t", "y", "/", "o",
     "a", "u", "t", "h", "2", "/", "t", "o", "k", "e", "n" >>
Declared_AIRPORT_SEARCH_ENDPOINT ==
  << "h", "t", "t", "p", "s", ":", "/", "/", "t", "e", "s", "t", ".", "a",
     "p", "i", ".", "a", "m", "a", "d", "e", "u", "s", ".", "c", "o", "m",
     "/", "v", "1", "/", "r", "e", "f", "e", "r", "e", "n", "c", "e", "-",
     "d", "a", "t", "a", "/", "l", "o", "c", "a", "t", "i", "o", "n", "s" >>
Declared_FLIGHT_SEARCH_ENDPOINT ==
  << "h", "t", "t", "p", "s", ":", "/", "/", "t", "e", "s", "t", ".", "a",
     "p", "i", ".", "a", "m", "a", "d", "e", "u", "s", ".", "c", "o", "m",
     "/", "v", "2", "/", "s", "h", "o", "p", "p", "i", "n", "g", "/", "f",
     "l", "i", "g", "h", "t", "-", "o", "f", "f", "e", "r", "s" >>
Declared_CHECKIN_LINKS_ENDPOINT ==
  << "h", "t", "t", "p", "s", ":", "/", "/", "t", "e", "s", "t", ".", "a",
     "p", "i", ".", "a", "m", "a", "d", "e", "u", "s", ".", "c", "o", "m",
     "/", "v", "2", "/", "r", "e", "f", "e", "r", "e", "n", "c", "e", "-",
     "d", "a", "t", "a", "/", "u", "r", "l", "s", "/", "c", "h", "e", "c",
     "k", "i", "n", "-", "l", "i", "n", "k", "s" >>
Declared_HOTEL_OFFERS_ENDPOINT ==
  << "h", "t", "t", "p", "s", ":", "/", "/", "t", "e", "s", "t", ".", "a",
     "p", "i", ".", "a", "m", "a", "d", "e", "u", "s", ".", "c", "o", "m",
     "/", "v", "3", "/", "s", "h", "o", "p", "p", "i", "n", "g", "/", "h",
     "o", "t", "e", "l", "-", "o", "f", "f", "e", "r", "s" >>
Declared_HOTELS_BY_CITY_ENDPOINT ==
  << "h", "t", "t", "p", "s", ":", "/", "/", "t", "e", "s", "t", ".", "a",
     "p", "i", ".", "a", "m", "a", "d", "e", "u", "s", ".", "c", "o", "m",
     "/", "v", "1", "/", "r", "e", "f", "e", "r", "e", "n", "c", "e", "-",
     "d", "a", "t", "a", "/", "l", "o", "c", "a", "t", "i", "o", "n", "s",
     "/", "h", "o", "t", "e", "l", "s", "/", "b", "y", "-", "c", "i", "t", "y" >>

\* `if AMADEUS_HOST == "production": X = X.replace("test", "api")`
ForHost(url) ==
  IF AMADEUS_HOST = "production" THEN replace(url, <<"t", "e", "s", "t">>, <<"a", "p", "i">>) ELSE url

AUTH_ENDPOINT == ForHost(Declared_AUTH_ENDPOINT)
AIRPORT_SEARCH_ENDPOINT == ForHost(Declared_AIRPORT_SEARCH_ENDPOINT)
FLIGHT_SEARCH_ENDPOINT == ForHost(Declared_FLIGHT_SEARCH_ENDPOINT)
CHECKIN_LINKS_ENDPOINT == ForHost(Declared_CHECKIN_LINKS_ENDPOINT)
HOTEL_OFFERS_ENDPOINT == ForHost(Declared_HOTEL_OFFERS_ENDPOINT)
HOTELS_BY_CITY_ENDPOINT == ForHost(Declared_HOTELS_BY_CITY_ENDPOINT)

\* the URL of the search GET of each operation
EndpointOf(op) ==
  CASE op = "search_airports" -> AIRPORT_SEARCH_ENDPOINT
    [] op = "search_flights" -> FLIGHT_SEARCH_ENDPOINT
    [] op = "get_flight_checkin_links" -> CHECKIN_LINKS_ENDPOINT
    [] op = "search_hotels_by_city" -> HOTELS_BY_CITY_ENDPOINT
    [] op = "search_hotel_offers" -> HOTEL_OFFERS_ENDPOINT

\* the requests an invocation has sent so far: the URL of each
RequestsOf(call) ==
  (IF call.auth_posts >= 1 THEN {AUTH_ENDPOINT} ELSE {})
  \cup (IF call.search_gets >= 1 THEN {EndpointOf(call.op)} ELSE {})

\* The program started under each setting of AMADEUS_HOST: two invocations
\* of any operation, an auth endpoint that grants or rejects, and a search
\* endpoint that answers 200 or rejects.
HostValues == {"production", "test", "PRODUCTION", "sandbox", ""}
InitHost ==
  /\ AMADEUS_HOST \in HostValues
  /\ Constructed
NextHost ==
  \/ \E c \in TwoCalls, op \in Ops, s \in Services : Invoke(c, op, s)
  \/ \E c \in TwoCalls, r \in QueryAuthResponses : AuthRespond(c, r)
  \/ \E c \in TwoCalls, r \in CacheSearchResponses : SearchRespond(c, r)

SpecHost == InitHost /\ [][NextHost]_vars

\* The two tools under every failure: an auth endpoint that grants, rejects
\* or raises, a search endpoint that answers 200 with at most one hotel,
\* rejects or raises, and check-in dates that strptime accepts or not, with
\* and without a check-out date.
FailToolArgs ==
  { [t EXCEPT !.check_in_date = d, !.check_out_date = co] :
      t \in FormatToolArgs,
      d \in {OfferDefaults.check_in_date} \cup UnparsableDates,
      co \in {Omitted, Given(<<"2", "0", "2", "5", "-", "0", "7", "-", "0", "5">>)} }
FailSearchResponses ==
  {r \in FormatSearchResponses : r.status = HttpOk /\ Len(r.body.data) <= 1}
  \cup {r \in SearchResponses : r.kind = "exception" \/ r.status # HttpOk}
NextTools ==
  \/ \E c \in TwoCalls, t \in FailToolArgs : search_hotels(c, t)
  \/ \E c \in TwoCalls, t \in FormatCityArgs : search_hotels_by_city(c, t)
  \/ \E c \in TwoCalls, r \in OpsAuthResponses : AuthRespond(c, r)
  \/ \E c \in TwoCalls, r \in FailSearchResponses : SearchRespond(c, r)

SpecTools == Init /\ [][NextTools]_vars

\* Short-lived grants: three direct _ensure_token calls on one instance
\* against an auth endpoint that rejects, or grants a token for less than,
\* exactly, or more than the refresh margin.
ShortExpiresIns == {0, 30, 60, 90}
ShortAuthResponses ==
  {[kind |-> "response", status |-> 401, json_ok |-> FALSE, body |-> NoAuthBody]}
  \cup {[kind |-> "response", status |-> HttpOk, json_ok |-> TRUE,
         body |-> AuthBody(a, "int", e)] : a \in IssuedTokens, e \in ShortExpiresIns}
NextShort ==
  \/ \E c \in Calls, op \in RaceOps, s \in RaceServices : Invoke(c, op, s)
  \/ \E c \in Calls, r \in ShortAuthResponses : AuthRespond(c, r)
  \/ Tick

SpecShort == Init /\ [][NextShort]_vars

\* Completion of invocations: two invocations on the hotel instance, direct
\* _ensure_token calls and offer searches, against endpoints that answer
\* or reject. The exchanges of the second invocation complete (the event
\* loop resumes a coroutine whose response has arrived); those of the first
\* may never complete.
LiveOps == {"ensure_token", "search_hotel_offers"}
Exchange(c) ==
  \/ \E r \in QueryAuthResponses : AuthRespond(c, r)
  \/ \E r \in CacheSearchResponses : SearchRespond(c, r)
NextLive ==
  \/ \E c \in TwoCalls, op \in LiveOps, s \in RaceServices : Invoke(c, op, s)
  \/ \E c \in TwoCalls, r \in QueryAuthResponses : AuthRespond(c, r)
  \/ \E c \in TwoCalls, r \in CacheSearchResponses : SearchRespond(c, r)
  \/ Tick

SpecLive == Init /\ [][NextLive]_vars /\ WF_vars(Exchange(CallOrder[2]))

(* ------------------------------ claims --------------------------------- *)
\* invocation c starts in this step
Starts(c) == calls[c].pc = "idle" /\ calls'[c].pc # "idle"
\* the _ensure_token call of invocation c returns from a refresh in this step
RefreshReturns(c) == calls[c].pc = "auth_wait" /\ calls'[c].pc # "auth_wait"

\* C1: on an instance that holds a token, an invocation started when
\* now >= token_expires_at sends exactly one auth POST, and one started when
\* now < token_expires_at sends none and gets the held token; no invocation
\* sends an auth POST later on; and an invocation started before
\* token_expires_at after another one's successful refresh gets that one's
\* token.
C1_RefreshExactlyWhenExpired ==
  [][\A c \in Calls :
       /\ Starts(c) /\ Truthy(access_token[calls'[c].svc]) =>
            LET s == calls'[c].svc IN
            /\ now >= token_expires_at[s] =>
                 calls'[c].auth_posts = 1 /\ calls'[c].pc = "auth_wait"
            /\ now < token_expires_at[s] =>
                 /\ calls'[c].auth_posts = 0
                 /\ calls'[c].token = access_token[s]
                 /\ \A d \in Calls \ {c} :
                      (calls[d].svc = s /\ calls[d].auth = "200" /\ Truthy(calls[d].token))
                        => calls'[c].token = calls[d].token
       /\ ~Starts(c) => calls'[c].auth_posts = calls[c].auth_posts
    ]_vars

\* C1, reached: a second invocation, started later than the first and before
\* the expiry the first one's refresh stored, has reused its token without
\* an auth POST.
C1_Witness ==
  /\ calls["c1"].auth = "200" /\ calls["c1"].auth_posts = 1
  /\ calls["c2"].auth = "cached" /\ calls["c2"].auth_posts = 0
  /\ calls["c2"].svc = calls["c1"].svc
  /\ Truthy(calls["c2"].token) /\ calls["c2"].token = calls["c1"].token
  /\ calls["c2"].current_time > calls["c1"].current_time

\* C2: when the auth endpoint answers 200 with a JSON object that states an
\* integer expires_in, _ensure_token stores access_token = the body's
\* access_token and token_expires_at = current_time + expires_in - 60, with
\* current_time the clock read at the start of the call, and returns the
\* stored token.
C2_StoresTokenAndExpiry ==
  [][\A c \in Calls, r \in AuthResponses :
       ( /\ RefreshReturns(c)
         /\ r.kind = "response" /\ r.status = HttpOk /\ r.json_ok
         /\ r.body.expires_in_kind = "int"
         /\ AuthRespond(c, r) )
       => LET s == calls[c].svc IN
          /\ access_token'[s] = r.body.access_token
          /\ token_expires_at'[s] =
               calls[c].current_time + r.body.expires_in - RefreshMargin
          /\ calls'[c].token = access_token'[s]
    ]_vars

\* C2, reached: a direct _ensure_token call whose answer arrived after the
\* clock had moved on has returned the token it stored, with the expiry
\* counted from the start of the call.
C2_Witness ==
  \E c \in Calls :
    /\ calls[c].op = "ensure_token" /\ calls[c].pc = "done" /\ calls[c].auth = "200"
    /\ Truthy(calls[c].ret_token)
    /\ access_token[calls[c].svc] = calls[c].ret_token
    /\ now > calls[c].current_time /\ calls[c].current_time > 0
    /\ token_expires_at[calls[c].svc] = calls[c].current_time + 90 - RefreshMargin

\* C3: whenever _ensure_token returns no token because the auth endpoint
\* answered non-200 or an exception was raised during the refresh, the call
\* leaves access_token and token_expires_at as they were.
C3_NothingCachedOnFailure ==
  [][\A c \in Calls :
       ( /\ RefreshReturns(c)
         /\ calls'[c].auth \in {"non200", "exception"}
         /\ calls'[c].token = None ) =>
          /\ access_token'[calls[c].svc] = access_token[calls[c].svc]
          /\ token_expires_at'[calls[c].svc] = token_expires_at[calls[c].svc]
    ]_vars

\* the return value of a finished invocation reports a failure
IsFailureResult(call) ==
  IF call.op = "ensure_token" THEN call.ret_kind = "token" /\ call.ret_token = None
  ELSE IF call.op \in ListOps THEN call.ret_kind = "list" /\ call.ret_list = <<>>
  ELSE /\ call.ret_kind = "dict"
       /\ "error" \in DOMAIN call.ret_dict
       /\ call.ret_dict.data = <<>>

\* C4 as stated: when the auth endpoint returns non-200, each of the five
\* search operations returns a result object with a non-empty error field
\* and an empty data list.
C4_AuthFailureIsErrorObject ==
  \A c \in Calls :
    (calls[c].op \in SearchOps /\ calls[c].auth = "non200") =>
       /\ calls[c].pc = "done" /\ calls[c].token = None
       /\ calls[c].ret_kind = "dict"
       /\ "error" \in DOMAIN calls[c].ret_dict
       /\ calls[c].ret_dict.error # ""
       /\ calls[c].ret_dict.data = <<>>

\* C4 amended: when the auth endpoint returns non-200, _ensure_token yields
\* no token; search_flights, search_hotels_by_city and search_hotel_offers
\* return a result object with the non-empty error "Unable to get access
\* token" and an empty data list, and search_airports and
\* get_flight_checkin_links return the empty list.
C4_AuthFailureByReturnType ==
  \A c \in Calls :
    calls[c].auth = "non200" =>
       /\ calls[c].pc = "done" /\ calls[c].token = None
       /\ calls[c].op \in DictOps =>
            /\ calls[c].ret_kind = "dict"
            /\ calls[c].ret_dict = [error |-> "Unable to get access token", data |-> <<>>]
            /\ calls[c].ret_dict.error # ""
       /\ calls[c].op \in ListOps =>
            calls[c].ret_kind = "list" /\ calls[c].ret_list = <<>>
       /\ calls[c].op = "ensure_token" =>
            calls[c].ret_kind = "token" /\ calls[c].ret_token = None

\* C4, reached: a result-object operation and a list operation have both met
\* a non-200 auth answer.
C4_Witness ==
  /\ calls["c1"].auth = "non200" /\ calls["c1"].op = "search_hotel_offers"
  /\ calls["c1"].ret_dict = [error |-> "Unable to get access token", data |-> <<>>]
  /\ calls["c2"].auth = "non200" /\ calls["c2"].op = "search_airports"
  /\ calls["c2"].ret_kind = "list"

\* C5: a search GET is sent only after _ensure_token has returned a
\* non-empty token in the same invocation and carries that token as its
\* bearer; when _ensure_token returns no token the operation returns at
\* once and sends no search GET.
C5_TokenStepBeforeSearchStep ==
  \A c \in Calls :
    /\ calls[c].search_gets > 0 =>
         /\ calls[c].auth \in {"cached", "200"}
         /\ Truthy(calls[c].token)
         /\ calls[c].bearer = calls[c].token
    /\ (calls[c].token # Unset /\ ~Truthy(calls[c].token)) =>
         /\ calls[c].pc = "done"
         /\ calls[c].search_gets = 0 /\ calls[c].bearer = Unset
         /\ calls[c].search = "none"
    /\ calls[c].pc = "auth_wait" => calls[c].search_gets = 0

\* C5, reached: two operations on one instance each have a search GET in
\* flight, each with the bearer its own token step returned, and the two
\* bearers differ.
C5_Witness ==
  /\ calls["c1"].pc = "search_wait" /\ calls["c2"].pc = "search_wait"
  /\ calls["c1"].svc = calls["c2"].svc
  /\ calls["c1"].bearer = calls["c1"].token /\ calls["c2"].bearer = calls["c2"].token
  /\ calls["c1"].bearer # calls["c2"].bearer

\* C6: one invocation sends at most one auth POST and at most one search
\* GET, and a failed attempt at either step ends the invocation with a
\* failure result.
C6_NoRetry ==
  \A c \in Calls :
    /\ calls[c].auth_posts <= 1 /\ calls[c].search_gets <= 1
    /\ calls[c].auth \in {"non200", "exception"} =>
         /\ calls[c].pc = "done" /\ IsFailureResult(calls[c])
         /\ calls[c].auth_posts = 1 /\ calls[c].search_gets = 0
    /\ calls[c].search \in {"non200", "exception"} =>
         /\ calls[c].pc = "done" /\ IsFailureResult(calls[c])
         /\ calls[c].search_gets = 1

\* C6, reached: an invocation whose auth POST succeeded and whose search GET
\* was rejected has ended after one request of each kind.
C6_Witness ==
  \E c \in Calls :
    /\ calls[c].pc = "done" /\ calls[c].auth = "200" /\ calls[c].search = "non200"
    /\ calls[c].auth_posts = 1 /\ calls[c].search_gets = 1
    /\ IsFailureResult(calls[c])

\* C7: under any interleaving of the invocations on one instance, whenever
\* the last write to the token fields was a successful refresh, both fields
\* come from that one invocation's 200 response (the token it was given, and
\* its own start time plus the lifetime that response stated, less the
\* margin), and while now < token_expires_at the provider has not yet expired
\* that token.
C7_RedundantRefreshHarmless ==
  \A s \in Services :
    grant[s].last_ok =>
      /\ grant[s].tok_from \in Calls
      /\ grant[s].exp_from = grant[s].tok_from
      /\ access_token[s] = calls[grant[s].tok_from].token
      /\ grant[s].known =>
           /\ token_expires_at[s] =
                calls[grant[s].exp_from].current_time
                  + (grant[s].until - grant[s].issued) - RefreshMargin
           /\ now < token_expires_at[s] => now < grant[s].until

\* C7, reached: after a first invocation's token has expired, two
\* invocations both found it expired and both refreshed; the answer to the
\* one started first arrived last and overwrote the other's token, which is
\* now the usable one.
C7_Witness ==
  \E s \in Services :
    /\ calls["c1"].svc = s /\ calls["c2"].svc = s /\ calls["c3"].svc = s
    /\ calls["c2"].held = "expired" /\ calls["c3"].held = "expired"
    /\ calls["c2"].auth = "200" /\ calls["c3"].auth = "200"
    /\ calls["c2"].auth_posts = 1 /\ calls["c3"].auth_posts = 1
    /\ Truthy(calls["c2"].token) /\ Truthy(calls["c3"].token)
    /\ calls["c2"].token # calls["c3"].token
    /\ grant[s].last_ok /\ grant[s].known /\ grant[s].tok_from = "c2"
    /\ access_token[s] = calls["c2"].token
    /\ now < token_expires_at[s]

\* C8: a held token is treated as usable exactly when now < token_expires_at;
\* token_expires_at is at least 60 seconds before the instant the provider
\* expires the held token; and every token returned from the cache without a
\* refresh has more than 60 seconds of its provider-granted lifetime left
\* when it is returned.  (The provider-granted lifetime is the integer
\* expires_in of the response that carried the token.)
C8_SixtySecondMargin ==
  /\ \A s \in Services :
       Truthy(access_token[s]) =>
         /\ ~NeedsRefresh(access_token[s], token_expires_at[s], now)
               <=> now < token_expires_at[s]
         /\ grant[s].known =>
              token_expires_at[s] + RefreshMargin <= grant[s].until
  /\ \A c \in Calls :
       (calls[c].auth = "cached" /\ calls[c].cache_known) =>
          calls[c].cache_left > RefreshMargin

\* C8, reached: an invocation has been served from the cache a token whose
\* response stated its lifetime.
C8_Witness ==
  \E c \in Calls :
    /\ calls[c].auth = "cached" /\ calls[c].cache_known
    /\ Truthy(calls[c].token) /\ calls[c].auth_posts = 0
    /\ calls[c].cache_left > RefreshMargin

\* C9: when the search endpoint answers with a status other than 200, an
\* operation that returns a result object (search_flights,
\* search_hotels_by_city, search_hotel_offers) returns one whose error is the
\* response body text verbatim and whose data is the empty list, with no
\* meta and no dictionaries.
C9_Non200BodyVerbatim ==
  [][\A c \in Calls, r \in SearchResponses :
       ( /\ calls[c].pc = "search_wait" /\ calls[c].op \in DictOps
         /\ r.kind = "response" /\ r.status # HttpOk
         /\ SearchRespond(c, r) )
       => /\ calls'[c].pc = "done" /\ calls'[c].ret_kind = "dict"
          /\ DOMAIN calls'[c].ret_dict = {"error", "data"}
          /\ calls'[c].ret_dict.error = r.text
          /\ calls'[c].ret_dict.data = <<>>
    ]_vars

\* C9, reached: a hotel search and a flight search have each returned the
\* body of a non-200 answer as their error, one of them a non-empty text.
C9_Witness ==
  /\ calls["c1"].op = "search_hotels_by_city" /\ calls["c1"].search = "non200"
  /\ calls["c1"].ret_dict = [error |-> "{errors}", data |-> <<>>]
  /\ calls["c2"].op = "search_flights" /\ calls["c2"].search = "non200"
  /\ calls["c2"].ret_dict = [error |-> "", data |-> <<>>]

\* C10 as stated: every failure of the search step (non-200 with any body,
\* exception with any message) is a result object with a non-empty error
\* field and an empty data list.
C10_SearchFailureNonEmptyError ==
  \A c \in Calls :
    calls[c].search \in {"non200", "exception"} =>
       /\ calls[c].ret_kind = "dict"
       /\ "error" \in DOMAIN calls[c].ret_dict
       /\ calls[c].ret_dict.error # ""
       /\ calls[c].ret_dict.data = <<>>

\* C10 amended: every failure of the search step of search_flights,
\* search_hotels_by_city and search_hotel_offers is a result object with
\* exactly the keys of an auth failure, error and data, where data is the
\* empty list and error is the body text or the exception message, which
\* may be empty; search_airports and get_flight_checkin_links return the
\* empty list, as they do for an auth failure.
C10_SearchFailureLikeAuthFailure ==
  \A c \in Calls :
    calls[c].search \in {"non200", "exception"} =>
       /\ calls[c].pc = "done"
       /\ calls[c].ret_kind = NoTokenResult(calls[c].op).kind
       /\ calls[c].op \in DictOps =>
            /\ DOMAIN calls[c].ret_dict = {"error", "data"}
            /\ calls[c].ret_dict.data = <<>>
       /\ calls[c].op \in ListOps => calls[c].ret_list = <<>>

\* C10, reached: a result-object operation has failed at its search step
\* with an exception that has no message, and a list operation has failed at
\* its search step.
C10_Witness ==
  /\ calls["c1"].op \in DictOps /\ calls["c1"].search = "exception"
  /\ calls["c1"].ret_dict = [error |-> "", data |-> <<>>]
  /\ calls["c2"].op \in ListOps /\ calls["c2"].search \in {"non200", "exception"}
  /\ calls["c2"].ret_list = <<>>

\* the kind of value the signature of an operation declares
DeclaredKind(op) ==
  IF op = "ensure_token" THEN "token" ELSE IF op \in ListOps THEN "list" ELSE "dict"

\* C11: whatever the auth endpoint and the search endpoint answer (any
\* status, any body, a body that does not parse, a transport error), every
\* invocation of the five search operations and of _ensure_token that is
\* answered ends by returning a value of its declared kind, never by an
\* exception; every pending request can be answered with any provider
\* behaviour, and the next invocation can always be started.
C11_NoExceptionEscapes ==
  /\ \A c \in Calls :
       /\ calls[c].pc \in {"idle", "auth_wait", "search_wait", "done"}
       /\ calls[c].pc = "done" => calls[c].ret_kind = DeclaredKind(calls[c].op)
       /\ calls[c].pc = "auth_wait" =>
            \A r \in AuthResponses : ENABLED AuthRespond(c, r)
       /\ calls[c].pc = "search_wait" =>
            \A r \in SearchResponses : ENABLED SearchRespond(c, r)
  /\ invocations < Len(CallOrder) =>
       \A op \in Ops : ENABLED Invoke(CallOrder[invocations + 1], op, ServiceOf(op))

\* C11, reached: an invocation whose auth POST raised returned no token, and
\* a hotel-offer search started after it got a token, hit a transport
\* error at its GET and returned the error object.
C11_Witness ==
  /\ calls["c1"].op = "ensure_token" /\ calls["c1"].auth = "exception"
  /\ calls["c1"].pc = "done" /\ calls["c1"].ret_token = None
  /\ calls["c2"].op = "search_hotel_offers" /\ calls["c2"].auth = "200"
  /\ calls["c2"].search = "exception" /\ calls["c2"].pc = "done"
  /\ calls["c2"].ret_dict = [error |-> "Cannot connect to host", data |-> <<>>]

\* number of days of year y before its month m
DaysBeforeMonth(y, m) ==
  LET F[k \in 1..12] == IF k = 1 THEN 0 ELSE F[k - 1] + DaysInMonth(y, k - 1) IN F[m]
\* ordinal of a calendar day in the proleptic Gregorian calendar
DayNumber(dt) ==
  365 * (dt.y - 1) + ((dt.y - 1) \div 4) - ((dt.y - 1) \div 100) + ((dt.y - 1) \div 400)
  + DaysBeforeMonth(dt.y, dt.m) + dt.d
\* text `out` is the YYYY-MM-DD form of the calendar day after the day text
\* `in` names
IsDayAfter(in, out) ==
  /\ strptime(in).ok /\ strptime(out).ok /\ Len(out) = 10
  /\ DayNumber(strptime(out)) = DayNumber(strptime(in)) + 1
\* the check_out_date the caller of invocation c passed, to the tool if c is
\* a tool call and to the service otherwise
PassedCheckOut(call) ==
  IF call.tool = "search_hotels" THEN call.targs.check_out_date
  ELSE call.args.check_out_date
\* invocation c is a hotel-offer search that has issued its query
IssuedOfferQuery(call) ==
  call.op = "search_hotel_offers" /\ call.search_gets = 1

C13_PriceRangeWithCurrency ==
  \A c \in Calls :
    IssuedOfferQuery(calls[c]) =>
      LET caller == IF calls[c].tool = "search_hotels" THEN calls[c].targs ELSE calls[c].args
          q == calls[c].query
      IN IF Truthy(caller.price_range) /\ Truthy(caller.currency)
         THEN /\ "priceRange" \in DOMAIN q /\ q.priceRange = caller.price_range
              /\ "currency" \in DOMAIN q /\ q.currency = caller.currency
         ELSE "priceRange" \notin DOMAIN q /\ "currency" \notin DOMAIN q

\* C13, reached: a query was sent for a caller who gave price_range but no
\* currency, and it has neither parameter.
C13_Witness ==
  /\ IssuedOfferQuery(calls["c1"]) /\ calls["c1"].tool = "none"
  /\ calls["c1"].args.price_range = "100-200" /\ calls["c1"].args.currency = None
  /\ "priceRange" \notin DOMAIN calls["c1"].query
  /\ "currency" \notin DOMAIN calls["c1"].query

\* the lowercase literal of a bool
Literal(b) == IF b THEN "true" ELSE "false"

\* C14 as stated: for both values of best_rate_only and of include_closed,
\* the hotel-offer query carries bestRateOnly and includeClosed as the
\* lowercase literal of the value.
C14_BooleansAsLiterals ==
  \A c \in Calls :
    IssuedOfferQuery(calls[c]) =>
      /\ "bestRateOnly" \in DOMAIN calls[c].query
      /\ calls[c].query.bestRateOnly = Literal(calls[c].args.best_rate_only)
      /\ "includeClosed" \in DOMAIN calls[c].query
      /\ calls[c].query.includeClosed = Literal(calls[c].args.include_closed)

\* C14 amended: the hotel-offer query always carries bestRateOnly as the
\* lowercase literal of best_rate_only, "true" or "false"; it carries
\* includeClosed, as "true", only when include_closed is True, and has no
\* includeClosed parameter when include_closed is False.
C14_IncludeClosedOnlyWhenTrue ==
  \A c \in Calls :
    IssuedOfferQuery(calls[c]) =>
      /\ "bestRateOnly" \in DOMAIN calls[c].query
      /\ calls[c].query.bestRateOnly = Literal(calls[c].args.best_rate_only)
      /\ IF calls[c].args.include_closed
         THEN "includeClosed" \in DOMAIN calls[c].query
              /\ calls[c].query.includeClosed = "true"
         ELSE "includeClosed" \notin DOMAIN calls[c].query

\* C14, reached: a query was sent for best_rate_only False and
\* include_closed False: it says bestRateOnly "false" and has no
\* includeClosed.
C14_Witness ==
  /\ IssuedOfferQuery(calls["c1"])
  /\ ~calls["c1"].args.best_rate_only /\ ~calls["c1"].args.include_closed
  /\ calls["c1"].query.bestRateOnly = "false"
  /\ "includeClosed" \notin DOMAIN calls["c1"].query

\* str is the elements of list in order with one comma between neighbours
IsCommaJoined(list, str) ==
  /\ Len(str) = (IF list = <<>> THEN 0 ELSE 2 * Len(list) - 1)
  /\ \A i \in DOMAIN list : str[2 * i - 1] = list[i]
  /\ \A i \in 1..(Len(list) - 1) : str[2 * i] = ","
\* an optional list argument is sent comma-joined under key, or left out
\* when it is omitted or empty
OptionalListSent(q, key, arg) ==
  IF arg.some /\ arg.v # <<>>
  THEN key \in DOMAIN q /\ IsCommaJoined(arg.v, q[key])
  ELSE key \notin DOMAIN q

\* C15: every query of search_hotels_by_city carries chainCodes, amenities
\* and ratings each as the caller's elements in the caller's order joined
\* by commas, or not at all when the list is omitted or empty; every query
\* of search_hotel_offers carries hotelIds as the caller's hotel IDs in
\* order joined by commas.
C15_ListsCommaJoined ==
  \A c \in Calls :
    /\ calls[c].op = "search_hotels_by_city" /\ calls[c].search_gets = 1 =>
         /\ OptionalListSent(calls[c].query, "chainCodes", calls[c].args.chain_codes)
         /\ OptionalListSent(calls[c].query, "amenities", calls[c].args.amenities)
         /\ OptionalListSent(calls[c].query, "ratings", calls[c].args.ratings)
    /\ IssuedOfferQuery(calls[c]) =>
         /\ "hotelIds" \in DOMAIN calls[c].query
         /\ IsCommaJoined(calls[c].args.hotel_ids, calls[c].query.hotelIds)

\* C15, reached: a by-city query was sent with two chain codes joined in
\* the caller's order, one rating, and no amenities parameter for an empty
\* amenities list.
C15_Witness ==
  /\ calls["c1"].op = "search_hotels_by_city" /\ calls["c1"].search_gets = 1
  /\ calls["c1"].args.chain_codes = Given(<<"SPA", "POOL">>)
  /\ calls["c1"].query.chainCodes = <<"SPA", ",", "POOL">>
  /\ calls["c1"].args.amenities = Given(<<>>)
  /\ "amenities" \notin DOMAIN calls["c1"].query
  /\ calls["c1"].args.ratings = Given(<<"WIFI">>)
  /\ calls["c1"].query.ratings = <<"WIFI">>

\* the keys of the two static tables
TableKeys == Keys(HOTEL_ID_MAPPING) \cup Keys(CITY_CODE_MAPPING)
\* two table keys name the same city: the same key up to spaces, or aliases
\* with the same hotel list
SameCity(k1, k2) ==
  \/ SelectSeq(k1, LAMBDA ch : ch # " ") = SelectSeq(k2, LAMBDA ch : ch # " ")
  \/ \E p1 \in HOTEL_ID_MAPPING, p2 \in HOTEL_ID_MAPPING :
        p1[1] = k1 /\ p2[1] = k2 /\ p1[2] = p2[2]
\* the codes CITY_CODE_MAPPING documents for the city a table key names
DocumentedCodes(key) == {p[2] : p \in {p \in CITY_CODE_MAPPING : SameCity(p[1], key)}}
\* the hotel-ID list a search_hotels call resolved its city to (empty when
\* it returned before calling the service)
ResolvedIds(call) ==
  IF call.op = "search_hotel_offers" THEN call.args.hotel_ids ELSE <<>>
\* the city code a search_hotels_by_city call resolved its city to is one
\* of the documented 3-letter codes of the city
ResolvedDocumentedCode(call) ==
  /\ Len(call.args.city_code) = 3
  /\ call.args.city_code \in DocumentedCodes(call.targs.city)

\* C16 as stated: for every key of HOTEL_ID_MAPPING or CITY_CODE_MAPPING
\* given as the city, search_hotels resolves a non-empty hotel-ID list and
\* search_hotels_by_city resolves the city's documented 3-letter code.
C16_EveryTableKeyResolves ==
  \A c \in Calls :
    calls[c].tool # "none" /\ calls[c].targs.city \in TableKeys =>
      /\ calls[c].tool = "search_hotels" => ResolvedIds(calls[c]) # <<>>
      /\ calls[c].tool = "search_hotels_by_city" => ResolvedDocumentedCode(calls[c])

\* C16 amended: for every key of either table given as the city,
\* search_hotels_by_city resolves the city's documented 3-letter code;
\* search_hotels resolves a non-empty hotel-ID list, the one of the table,
\* for the keys of HOTEL_ID_MAPPING, and an empty list for the keys that
\* only CITY_CODE_MAPPING has (berlin .. vienna).
C16_KeysResolveByTable ==
  \A c \in Calls :
    calls[c].tool # "none" /\ calls[c].targs.city \in TableKeys =>
      /\ calls[c].tool = "search_hotels" =>
           IF calls[c].targs.city \in Keys(HOTEL_ID_MAPPING)
           THEN /\ ResolvedIds(calls[c]) # <<>>
                /\ <<calls[c].targs.city, ResolvedIds(calls[c])>> \in HOTEL_ID_MAPPING
           ELSE ResolvedIds(calls[c]) = <<>>
      /\ calls[c].tool = "search_hotels_by_city" => ResolvedDocumentedCode(calls[c])

\* C16, reached: search_hotels_by_city, called with the alias "lon" that
\* only the hotel table has, has sent its query for city code LON.
C16_Witness ==
  /\ calls["c2"].tool = "search_hotels_by_city" /\ calls["c2"].search_gets = 1
  /\ calls["c2"].targs.city = <<"l", "o", "n">>
  /\ calls["c2"].query.cityCode = <<"L", "O", "N">>

\* two texts differ only in letter case or in spaces
SameLetter(a, b) ==
  a = b \/ \E i \in DOMAIN LowerCase : {a, b} = {LowerCase[i], UpperCase[i]}
DiffersOnlyInCaseOrSpaces(x, y) ==
  LET u == SelectSeq(x, LAMBDA ch : ch # " ")
      v == SelectSeq(y, LAMBDA ch : ch # " ")
  IN Len(u) = Len(v) /\ \A i \in DOMAIN u : SameLetter(u[i], v[i])
\* the lowercased, space-free form of the city is a key of the table
Known(table, city) ==
  \E k \in Keys(table) : " " \notin {k[i] : i \in DOMAIN k}
                          /\ DiffersOnlyInCaseOrSpaces(city, k)

\* C17 as stated: city arguments that differ only in letter case or spaces
\* resolve alike, in hotel-ID list and in city code; a city whose
\* normalized form is in neither table resolves to the empty hotel-ID list
\* and to the raw argument uppercased.
C17_SpellingsResolveAlike ==
  \A c \in Calls :
    calls[c].tool # "none" =>
      /\ \A other \in CityInputs :
           DiffersOnlyInCaseOrSpaces(calls[c].targs.city, other) =>
             /\ calls[c].tool = "search_hotels" =>
                  ResolvedIds(calls[c]) = hotel_ids_for(other)
             /\ calls[c].tool = "search_hotels_by_city" =>
                  calls[c].args.city_code = city_code_for(other)
      /\ ~Known(HOTEL_ID_MAPPING, calls[c].targs.city)
           /\ ~Known(CITY_CODE_MAPPING, calls[c].targs.city) =>
             /\ calls[c].tool = "search_hotels" => ResolvedIds(calls[c]) = <<>>
             /\ calls[c].tool = "search_hotels_by_city" =>
                  calls[c].args.city_code = upper(calls[c].targs.city)

\* C17 amended: city arguments that differ only in letter case or spaces
\* resolve to the same hotel-ID list, and to the same city code when their
\* lowercased, space-free form is a key of CITY_CODE_MAPPING; a city whose
\* normalized form is not a key of HOTEL_ID_MAPPING resolves to the empty
\* hotel-ID list, and one whose normalized form is not a key of
\* CITY_CODE_MAPPING resolves to the raw argument uppercased, spaces kept.
C17_LookupIgnoresCaseAndSpaces ==
  \A c \in Calls :
    calls[c].tool # "none" =>
      /\ \A other \in CityInputs :
           DiffersOnlyInCaseOrSpaces(calls[c].targs.city, other) =>
             /\ calls[c].tool = "search_hotels" =>
                  ResolvedIds(calls[c]) = hotel_ids_for(other)
             /\ calls[c].tool = "search_hotels_by_city"
                  /\ Known(CITY_CODE_MAPPING, calls[c].targs.city) =>
                  calls[c].args.city_code = city_code_for(other)
      /\ calls[c].tool = "search_hotels" /\ ~Known(HOTEL_ID_MAPPING, calls[c].targs.city) =>
           ResolvedIds(calls[c]) = <<>>
      /\ calls[c].tool = "search_hotels_by_city"
           /\ ~Known(CITY_CODE_MAPPING, calls[c].targs.city) =>
           calls[c].args.city_code = upper(calls[c].targs.city)

\* C17, reached: search_hotels called with "NEW YORK" has sent its query
\* for the two New York hotels.
C17_Witness ==
  /\ calls["c2"].tool = "search_hotels" /\ calls["c2"].search_gets = 1
  /\ calls["c2"].targs.city = <<"N", "E", "W", " ", "Y", "O", "R", "K">>
  /\ calls["c2"].query.hotelIds = <<"NYNYCTSC", ",", "NYCNYCHM">>

\* C18: a search_hotels call whose city resolves to an empty hotel-ID list
\* returns in the step it is called in, with the "No hotel information
\* found" text about that city; it has sent no auth POST and no search GET,
\* and the step leaves access_token and token_expires_at of both instances
\* as they were.
C18_EmptyHotelIdsShortCircuit ==
  [][ \A c \in Calls :
        Starts(c) /\ calls'[c].tool = "search_hotels"
          /\ hotel_ids_for(calls'[c].targs.city) = <<>> =>
          /\ calls'[c].pc = "done" /\ calls'[c].tool_done
          /\ Len(calls'[c].ret_text) = 1
          /\ calls'[c].ret_text[1].kind = "No hotel information found for city '{city}'."
          /\ calls'[c].ret_text[1].text = calls'[c].targs.city
          /\ calls'[c].auth_posts = 0 /\ calls'[c].search_gets = 0
          /\ UNCHANGED <<access_token, token_expires_at>>
    ]_vars

\* C18, reached: with a token cached on the hotel instance, search_hotels
\* called for Berlin, which has a city code but no hotel IDs, has returned
\* the text without a request.
C18_Witness ==
  /\ access_token["hotel"] = "T1" /\ calls["c1"].pc = "done"
  /\ calls["c2"].tool = "search_hotels" /\ calls["c2"].tool_done
  /\ calls["c2"].targs.city = <<"B", "e", "r", "l", "i", "n">>
  /\ calls["c2"].auth_posts = 0 /\ calls["c2"].search_gets = 0
  /\ calls["c2"].ret_text[1].kind = "No hotel information found for city '{city}'."

\* invocation `call` is a tool call that has formatted a non-empty hotel
\* list
FormattedHotels(call) ==
  /\ call.tool # "none" /\ call.tool_done /\ call.search = "200"
  /\ call.ret_dict.data # <<>>
\* the pieces of a text that are of one of the kinds, in their order
PiecesOf(text, kinds) == SelectSeq(text, LAMBDA p : p.kind \in kinds)
\* the positions of a text whose piece is of one of the kinds
PositionsOf(text, kinds) == {k \in DOMAIN text : text[k].kind \in kinds}
HotelKinds == {"Hotel {i+1}: {hotel_name} ({hotel_id})", "Hotel {i+1}: {hotel_name}"}

RECURSIVE SourceOffers(_, _)
\* the offers of the available hotels of a provider list, in provider
\* order, each with the position of its hotel and its position in the hotel
SourceOffers(hotels, i) ==
  IF i > Len(hotels) THEN <<>>
  ELSE (IF Get(hotels[i], "available", FALSE)
        THEN [j \in 1..Len(Get(hotels[i], "offers", <<>>)) |->
                [i |-> i, j |-> j, offer |-> hotels[i].offers[j]]]
        ELSE <<>>)
       \o SourceOffers(hotels, i + 1)
\* the description text of a provider offer
SourceDescription(offer) ==
  IF "room" \in DOMAIN offer /\ "description" \in DOMAIN offer.room
  THEN offer.room.description.text ELSE NoDescription

\* C19: in the text search_hotels returns, the offers of the available
\* hotels appear in provider order, each with its description shown as its
\* first 100 characters followed by "..." when the source text is longer
\* than 100 characters and as the whole text, with nothing added, when it
\* has 100 characters or fewer; the description comes after the line of
\* its hotel, which carries the hotel name, and is directly followed by the
\* price line carrying the total and the currency code.
C19_DescriptionCutAtHundred ==
  \A c \in Calls :
    FormattedHotels(calls[c]) /\ calls[c].tool = "search_hotels" =>
      LET text == calls[c].ret_text
          hotels == calls[c].ret_dict.data
          src == SourceOffers(hotels, 1)
          at == PositionsOf(text, {"  - Description: {room_desc}"})
          shown == PiecesOf(text, {"  - Description: {room_desc}"})
      IN /\ Len(shown) = Len(src)
         /\ \A k \in DOMAIN src :
              LET d == SourceDescription(src[k].offer) IN
              IF Len(d) > 100
              THEN /\ Len(shown[k].text) = 103
                   /\ \A n \in 1..100 : shown[k].text[n] = d[n]
                   /\ \A n \in 101..103 : shown[k].text[n] = "."
              ELSE shown[k].text = d
         /\ \A p \in at :
              LET k == Cardinality({q \in at : q <= p})
                  before == {h \in PositionsOf(text, HotelKinds) : h < p}
                  h == CHOOSE h \in before : \A g \in before : g <= h
              IN /\ before # {}
                 /\ text[h].ord = src[k].i
                 /\ text[h].a = Get(Get(hotels[src[k].i], "hotel", <<>>), "name", "Unknown Hotel")
                 /\ p < Len(text)
                 /\ text[p + 1].kind = "  - Price: {total_price} {currency_code}"
                 /\ text[p + 1].a = Get(Get(src[k].offer, "price", <<>>), "total", "Unknown")
                 /\ text[p + 1].b = Get(Get(src[k].offer, "price", <<>>), "currency", "EUR")

\* C19, reached: a returned text shows a 100-character description whole
\* and, right after it, a 101-character one cut to 100 characters and the
\* ellipsis.
C19_Witness ==
  LET shown == PiecesOf(calls["c1"].ret_text, {"  - Description: {room_desc}"}) IN
  /\ FormattedHotels(calls["c1"]) /\ calls["c1"].tool = "search_hotels"
  /\ Len(shown) >= 2
  /\ shown[1].text = DescText(100)
  /\ shown[2].text = DescText(100) \o <<".", ".", ".">>

\* C20: for a result list of n hotels, the text either tool returns has the
\* hotel lines "Hotel 1" .. "Hotel n" with the names in provider order,
\* under each available hotel of search_hotels the offer lines "Offer 1" ..
\* "Offer m", and exactly n-1 separator lines: one after the record of
\* every hotel but the last, none after the last, whatever the
\* availability of each hotel.
C20_LabelsAndSeparators ==
  \A c \in Calls :
    FormattedHotels(calls[c]) =>
      LET text == calls[c].ret_text
          hotels == calls[c].ret_dict.data
          n == Len(hotels)
          lines == PiecesOf(text, HotelKinds)
          at == PositionsOf(text, HotelKinds)
          seps == PositionsOf(text, {"---"})
          offers == PiecesOf(text, {"  Offer {j+1}:"})
          src == SourceOffers(hotels, 1)
      IN /\ Len(lines) = n
         /\ \A i \in 1..n :
              /\ lines[i].ord = i
              /\ lines[i].a = Get(IF calls[c].tool = "search_hotels"
                                   THEN Get(hotels[i], "hotel", <<>>) ELSE hotels[i],
                                   "name", "Unknown Hotel")
         /\ calls[c].tool = "search_hotels" =>
              /\ Len(offers) = Len(src)
              /\ \A k \in DOMAIN src : offers[k].ord = src[k].j
         /\ Cardinality(seps) = n - 1
         /\ \A p \in at :
              LET record == {k \in seps : k > p /\ \A q \in at : q > p => k < q}
              IN Cardinality(record) = (IF \E q \in at : q > p THEN 1 ELSE 0)

\* C21: the token is owned by one service instance. A step of an operation
\* on one service leaves the other service's access_token and
\* token_expires_at as they were, and whether an operation that starts
\* performs a refresh depends on the fields of its own instance only: it
\* refreshes exactly if that instance holds no token or an expired one,
\* whatever the other instance holds.
C21_TokenOwnedByInstance ==
  [][\A c \in Calls :
       /\ calls'[c] # calls[c] =>
            \A s \in Services \ {calls'[c].svc} :
               /\ access_token'[s] = access_token[s]
               /\ token_expires_at'[s] = token_expires_at[s]
       /\ Starts(c) /\ calls'[c].op # "none" =>
            LET own == calls'[c].svc
            IN (calls'[c].auth_posts = 1) <=>
                 (~Truthy(access_token[own]) \/ now >= token_expires_at[own])]_vars

\* the flight service holds a usable token of its own while an operation on
\* the hotel service, finding none there, has refreshed and stored another
C21_Witness ==
  /\ calls["c1"].svc = "amadeus" /\ calls["c1"].pc = "done"
  /\ calls["c2"].svc = "hotel" /\ calls["c2"].pc = "done"
  /\ calls["c2"].held = "no_token" /\ calls["c2"].auth_posts = 1
  /\ grant["amadeus"].tok_from = "c1" /\ grant["hotel"].tok_from = "c2"
  /\ access_token["amadeus"] = "T1" /\ access_token["hotel"] = "T2"
  /\ now < token_expires_at["amadeus"] /\ now < token_expires_at["hotel"]
  /\ token_expires_at["amadeus"] # token_expires_at["hotel"]

\* C22: search_airports and get_flight_checkin_links always return a list
\* and nothing else: the data of the answer (the empty list when the answer
\* states none) when the search endpoint answers 200, and the empty list
\* when the token step yields no token, when the endpoint answers anything
\* but 200 and when the search raises. An empty result of a call that
\* failed is therefore the same value as the result of a call that found
\* nothing.
C22_ListOperationsReturnLists ==
  [][\A c \in Calls :
       /\ \A r \in SearchResponses :
            calls[c].op \in ListOps /\ SearchRespond(c, r) =>
              /\ calls'[c].pc = "done"
              /\ calls'[c].ret_list =
                   IF r.kind = "response" /\ r.status = HttpOk
                   THEN Get(r.body, "data", <<>>) ELSE <<>>
       /\ calls'[c].op \in ListOps /\ calls[c].pc # "done" /\ calls'[c].pc = "done" =>
            /\ calls'[c].ret_kind = "list"
            /\ calls'[c].ret_dict = NoDict /\ calls'[c].ret_token = None
            /\ calls'[c].search = "none" =>
                 /\ ~Truthy(calls'[c].token)
                 /\ calls'[c].search_gets = 0
                 /\ calls'[c].ret_list = <<>>
    ]_vars

\* one airport search whose token step failed and one that the endpoint
\* answered with 200 and no records have returned the same empty list
C22_Witness ==
  /\ calls["c1"].op = "search_airports" /\ calls["c1"].pc = "done"
  /\ calls["c1"].auth = "non200" /\ calls["c1"].search_gets = 0
  /\ calls["c2"].op = "search_airports" /\ calls["c2"].pc = "done"
  /\ calls["c2"].auth = "200" /\ calls["c2"].search = "200"
  /\ calls["c1"].ret_kind = "list" /\ calls["c2"].ret_kind = "list"
  /\ calls["c1"].ret_list = <<>> /\ calls["c2"].ret_list = <<>>

\* C24: when the search endpoint answers 200, the result of a dict-returning
\* operation has data equal to the data of the answer (the empty list when
\* the answer states none), has the answer's meta for the hotel-by-city
\* search and its dictionaries for the flight search (an empty dict when
\* the answer states none), and has no error key; and the result of an
\* invocation has an error key exactly if the invocation failed, that is,
\* if it did not get a 200 from its search endpoint.
C24_SuccessResultShape ==
  [][\A c \in Calls :
       /\ \A r \in SearchResponses :
            ( /\ calls[c].op \in DictOps
              /\ r.kind = "response" /\ r.status = HttpOk
              /\ SearchRespond(c, r) )
            => LET res == calls'[c].ret_dict
                   op == calls[c].op
               IN /\ calls'[c].pc = "done" /\ calls'[c].ret_kind = "dict"
                  /\ res.data = (IF "data" \in DOMAIN r.body THEN r.body.data ELSE <<>>)
                  /\ "error" \notin DOMAIN res
                  /\ op = "search_hotels_by_city" =>
                       /\ DOMAIN res = {"data", "meta"}
                       /\ res.meta = (IF "meta" \in DOMAIN r.body THEN r.body.meta
                                      ELSE [none |-> TRUE])
                  /\ op = "search_flights" =>
                       /\ DOMAIN res = {"data", "dictionaries"}
                       /\ res.dictionaries =
                            (IF "dictionaries" \in DOMAIN r.body THEN r.body.dictionaries
                             ELSE [none |-> TRUE])
                  /\ op = "search_hotel_offers" => DOMAIN res = {"data"}
       /\ calls'[c].op \in DictOps /\ calls[c].pc # "done" /\ calls'[c].pc = "done" =>
            (("error" \in DOMAIN calls'[c].ret_dict) <=> (calls'[c].search # "200"))
    ]_vars

\* a flight search has returned the two records and the dictionaries of a
\* 200 answer, and a hotel-by-city search the empty list and an empty meta
\* for a 200 answer that stated neither
C24_Witness ==
  /\ calls["c1"].op = "search_flights" /\ calls["c1"].search = "200"
  /\ calls["c1"].ret_dict = [data |-> <<"r1", "r2">>, dictionaries |-> [carriers |-> "BA"]]
  /\ calls["c2"].op = "search_hotels_by_city" /\ calls["c2"].search = "200"
  /\ calls["c2"].ret_dict = [data |-> <<>>, meta |-> [none |-> TRUE]]

\* the parts of a URL: what stands between "https://" and the first "/"
\* after it, and what follows from that "/" on
Scheme == <<"h", "t", "t", "p", "s", ":", "/", "/">>
RECURSIVE UpToSlash(_)
UpToSlash(s) ==
  IF s = <<>> \/ Head(s) = "/" THEN <<>> ELSE <<Head(s)>> \o UpToSlash(Tail(s))
HostnameOf(url) == UpToSlash(SubSeq(url, Len(Scheme) + 1, Len(url)))
PathOf(url) == SubSeq(url, Len(Scheme) + Len(HostnameOf(url)) + 1, Len(url))
ProductionHostname ==
  <<"a", "p", "i", ".", "a", "m", "a", "d", "e", "u", "s", ".", "c", "o", "m">>
TestHostname == <<"t", "e", "s", "t", ".">> \o ProductionHostname
DeclaredPaths ==
  {PathOf(u) : u \in {Declared_AUTH_ENDPOINT, Declared_AIRPORT_SEARCH_ENDPOINT,
                      Declared_FLIGHT_SEARCH_ENDPOINT, Declared_CHECKIN_LINKS_ENDPOINT,
                      Declared_HOTEL_OFFERS_ENDPOINT, Declared_HOTELS_BY_CITY_ENDPOINT}}

\* C23: the provider host is chosen by AMADEUS_HOST alone. Every request of
\* either service, the auth POST and each search GET, goes to an https URL
\* whose hostname is api.amadeus.com when AMADEUS_HOST is "production" and
\* test.api.amadeus.com for any other value, and whose path is the declared
\* path of its endpoint in both cases.
C23_HostChosenByFlag ==
  \A c \in Calls : \A url \in RequestsOf(calls[c]) :
    /\ SubSeq(url, 1, Len(Scheme)) = Scheme
    /\ HostnameOf(url) = (IF AMADEUS_HOST = "production" THEN ProductionHostname
                          ELSE TestHostname)
    /\ PathOf(url) \in DeclaredPaths
    /\ PathOf(url) = PathOf(IF url = AUTH_ENDPOINT THEN Declared_AUTH_ENDPOINT
                            ELSE CHOOSE d \in {Declared_AIRPORT_SEARCH_ENDPOINT,
                                               Declared_FLIGHT_SEARCH_ENDPOINT,
                                               Declared_CHECKIN_LINKS_ENDPOINT,
                                               Declared_HOTEL_OFFERS_ENDPOINT,
                                               Declared_HOTELS_BY_CITY_ENDPOINT} :
                                   url = ForHost(d))

\* the one-piece text of a failure
FailureText(kind, detail, text) == << Piece(kind, 0, detail, "", text) >>

\* C25: both tools always return a descriptive text and never raise. When
\* the token step yields no token the tool returns "Hotel search failed: "
\* with the service's "Unable to get access token"; when the search endpoint
\* rejects the request, with the body of the answer; when the search raises,
\* with the text of the exception; and when search_hotels has to compute the
\* check-out date from a check_in_date that strptime rejects, it returns "An
\* error occurred while searching for hotels: " with the text of the
\* ValueError. In every case the tool is finished as soon as its service
\* call is.
C25_ToolsReturnText ==
  [][\A c \in Calls :
       /\ calls'[c].tool # "none" /\ calls'[c].pc = "done" =>
            /\ calls'[c].tool_done
            /\ calls'[c].ret_text # <<>>
            /\ calls'[c].ret_kind # "raised"
       /\ \A r \in FailSearchResponses :
            calls[c].tool # "none" /\ SearchRespond(c, r) =>
              /\ r.kind = "exception" =>
                   calls'[c].ret_text =
                     FailureText("Hotel search failed: {error}", r.msg, <<>>)
              /\ r.kind = "response" /\ r.status # HttpOk =>
                   calls'[c].ret_text =
                     FailureText("Hotel search failed: {error}", r.text, <<>>)
       /\ \A r \in OpsAuthResponses :
            calls[c].tool # "none" /\ AuthRespond(c, r) /\ AuthOutcome(r) # "200" =>
              /\ calls'[c].pc = "done" /\ calls'[c].search_gets = 0
              /\ calls'[c].ret_text =
                   FailureText("Hotel search failed: {error}",
                               "Unable to get access token", <<>>)
       /\ ( /\ Starts(c) /\ calls'[c].tool = "search_hotels"
            /\ hotel_ids_for(calls'[c].targs.city) # <<>>
            /\ ~TruthyOpt(calls'[c].targs.check_out_date)
            /\ ~strptime(calls'[c].targs.check_in_date).ok )
          => /\ calls'[c].pc = "done" /\ calls'[c].tool_done
             /\ calls'[c].auth_posts = 0
             /\ calls'[c].ret_text =
                  FailureText("An error occurred while searching for hotels: {str(e)}",
                              "time data does not match format",
                              calls'[c].targs.check_in_date)
    ]_vars

\* search_hotels_by_city has returned the text of an auth failure, and
\* search_hotels, called with a check-in date that is no date and without a
\* check-out date, the text of the ValueError
C25_Witness ==
  /\ calls["c1"].tool = "search_hotels_by_city" /\ calls["c1"].tool_done
  /\ calls["c1"].auth = "exception"
  /\ calls["c1"].ret_text[1].a = "Unable to get access token"
  /\ calls["c2"].tool = "search_hotels" /\ calls["c2"].tool_done
  /\ calls["c2"].targs.check_in_date = <<"t", "o", "m", "o", "r", "r", "o", "w">>
  /\ calls["c2"].targs.check_out_date = Omitted
  /\ calls["c2"].ret_text[1].kind = "An error occurred while searching for hotels: {str(e)}"

\* C26: a freshly constructed instance holds no token and has sent no
\* request. An operation that starts on an instance no refresh has written
\* to sends one auth POST and nothing else; an operation that found no
\* usable token has sent exactly one auth POST, and got its token from it,
\* by the time it sends its search GET; and every refresh that runs to its
\* return statement, the later ones included, replaces both token fields
\* with the values of its own response.
C26_FreshInstanceThenRefresh ==
  /\ \A s \in Services : access_token[s] = None /\ token_expires_at[s] = 0
  /\ \A c \in Calls : calls[c].auth_posts = 0 /\ calls[c].search_gets = 0
  /\ [][\A c \in Calls :
          /\ Starts(c) /\ calls'[c].op # "none" /\ grant[calls'[c].svc].tok_from = "init" =>
               /\ access_token[calls'[c].svc] = None
               /\ calls'[c].pc = "auth_wait"
               /\ calls'[c].auth_posts = 1 /\ calls'[c].search_gets = 0
          /\ calls[c].search_gets = 0 /\ calls'[c].search_gets = 1
             /\ calls'[c].held # "usable" =>
               /\ calls[c].pc = "auth_wait" /\ calls[c].auth_posts = 1
               /\ calls'[c].auth_posts = 1 /\ calls'[c].auth = "200"
               /\ calls'[c].bearer = access_token'[calls'[c].svc]
          /\ \A r \in AuthResponses :
               AuthRespond(c, r) /\ AuthOutcome(r) = "200" =>
                 LET s == calls[c].svc
                     expires_in == IF r.body.expires_in_kind = "absent"
                                   THEN DefaultExpiresIn ELSE r.body.expires_in
                 IN /\ access_token'[s] = r.body.access_token
                    /\ token_expires_at'[s] =
                         calls[c].current_time + expires_in - RefreshMargin
       ]_vars

\* a flight search on a fresh instance has sent one auth POST and then its
\* GET, and a later refresh on the same instance has replaced the token and
\* the expiry that the first one stored
C26_Witness ==
  /\ calls["c1"].op = "search_flights" /\ calls["c1"].held = "no_token"
  /\ calls["c1"].auth_posts = 1 /\ calls["c1"].search_gets = 1
  /\ calls["c1"].token = "T1"
  /\ calls["c2"].svc = "amadeus" /\ calls["c2"].held = "expired"
  /\ calls["c2"].auth = "200" /\ calls["c2"].token = "T2"
  /\ access_token["amadeus"] = "T2"
  /\ grant["amadeus"].tok_from = "c2" /\ grant["amadeus"].exp_from = "c2"
  /\ token_expires_at["amadeus"] = calls["c2"].current_time + 30

\* C28: the search step has no effect on the token cache. Whatever the
\* search endpoint answers (200, 401 or another non-200 status, or an
\* exception), access_token and token_expires_at of both instances keep
\* their values; so an operation that starts while the instance holds a
\* token and the clock is before token_expires_at sends no auth POST and
\* sends its GET with the held token, also when a search endpoint has
\* rejected that token before.
C28_SearchLeavesCacheAlone ==
  [][\A c \in Calls :
       /\ \A r \in SearchResponses :
            SearchRespond(c, r) =>
              /\ access_token' = access_token
              /\ token_expires_at' = token_expires_at
       /\ calls[c].pc = "search_wait" /\ calls'[c].pc # "search_wait" =>
            /\ access_token' = access_token
            /\ token_expires_at' = token_expires_at
       /\ ( /\ Starts(c) /\ calls'[c].op \in SearchOps
            /\ Truthy(access_token[calls'[c].svc])
            /\ now < token_expires_at[calls'[c].svc] )
          => /\ calls'[c].auth_posts = 0 /\ calls'[c].search_gets = 1
             /\ calls'[c].bearer = access_token[calls'[c].svc]
    ]_vars

\* a search endpoint has rejected the token of a hotel search, the instance
\* still holds that token, and the next operation on the instance has sent
\* its GET with it, taken from the cache
C28_Witness ==
  /\ calls["c1"].op = "search_hotel_offers" /\ calls["c1"].pc = "done"
  /\ calls["c1"].search = "non200" /\ calls["c1"].bearer = "T1"
  /\ calls["c1"].ret_dict.error = "{errors}"
  /\ calls["c2"].svc = "hotel" /\ calls["c2"].op = "search_hotels_by_city"
  /\ calls["c2"].auth = "cached" /\ calls["c2"].auth_posts = 0
  /\ calls["c2"].search_gets = 1 /\ calls["c2"].bearer = "T1"
  /\ access_token["hotel"] = "T1"

\* C29: when the auth endpoint grants expires_in <= 60, the stored
\* token_expires_at is not later than the clock value the refreshing call
\* read at its start; that call returns the granted token, and since the
\* clock never runs backwards every _ensure_token call that starts while
\* the instance holds the fields of such a grant performs a refresh of its
\* own instead of taking the token from the cache.
C29_ShortGrantNeverCached ==
  [][\A c \in Calls :
       /\ \A r \in ShortAuthResponses :
            ( /\ AuthRespond(c, r) /\ AuthOutcome(r) = "200"
              /\ r.body.expires_in <= RefreshMargin )
            => /\ token_expires_at'[calls[c].svc] <= calls[c].current_time
               /\ access_token'[calls[c].svc] = r.body.access_token
               /\ calls'[c].pc = "done"
               /\ calls'[c].ret_token = r.body.access_token
       /\ ( /\ Starts(c)
            /\ grant[calls'[c].svc].exp_from # "init"
            /\ grant[calls'[c].svc].until - grant[calls'[c].svc].issued <= RefreshMargin )
          => /\ calls'[c].pc = "auth_wait"
             /\ calls'[c].auth_posts = 1
             /\ calls'[c].auth # "cached"
    ]_vars

\* a call was granted a token for exactly the margin and returned it; the
\* next call, started at the same instant, found it expired and refreshed
C29_Witness ==
  /\ calls["c1"].pc = "done" /\ calls["c1"].ret_token = "T1"
  /\ calls["c2"].held = "expired" /\ calls["c2"].auth_posts = 1
  /\ calls["c2"].current_time = calls["c1"].current_time
  /\ calls["c2"].pc = "auth_wait"
  /\ access_token["hotel"] = "T1"
  /\ grant["hotel"].tok_from = "c1"
  /\ grant["hotel"].until - grant["hotel"].issued = RefreshMargin
  /\ token_expires_at["hotel"] = calls["c1"].current_time

\* an operation has returned the result of a failed token step: the error
\* object with "Unable to get access token", or the empty list, without
\* having sent its search GET
ReportsAuthFailure(call) ==
  /\ call.pc = "done" /\ call.op \in SearchOps
  /\ call.search_gets = 0
  /\ IF call.op \in ListOps THEN call.ret_kind = "list" /\ call.ret_list = <<>>
     ELSE /\ call.ret_kind = "dict" /\ "error" \in DOMAIN call.ret_dict
          /\ call.ret_dict.error = "Unable to get access token"
Returns(c) == calls[c].pc # "done" /\ calls'[c].pc = "done"
\* the invocations on instance s that found no usable token at their start
InWindow(cs, s) ==
  {c \in Calls : cs[c].pc # "idle" /\ cs[c].op # "none" /\ cs[c].svc = s
                 /\ cs[c].held \in {"no_token", "expired"}}
RECURSIVE AuthPosts(_, _)
AuthPosts(cs, S) ==
  IF S = {} THEN 0
  ELSE LET c == CHOOSE x \in S : TRUE IN cs[c].auth_posts + AuthPosts(cs, S \ {c})

\* C30: under any interleaving of concurrent operations on one instance, an
\* operation reports the auth failure only if, at the moment it returns,
\* the instance holds no usable token (a non-empty access_token with the
\* clock before token_expires_at); and the N operations that started on an
\* instance while it held no usable token have sent between 1 and N auth
\* POSTs in total.
C30_FailureOnlyWithoutUsableToken ==
  [][\A c \in Calls :
       /\ Returns(c) /\ ReportsAuthFailure(calls'[c]) =>
            ~ ( /\ Truthy(access_token'[calls'[c].svc])
                /\ now' < token_expires_at'[calls'[c].svc] )
       /\ \A s \in Services :
            InWindow(calls', s) # {} =>
              AuthPosts(calls', InWindow(calls', s))
                \in 1..Cardinality(InWindow(calls', s))
    ]_vars

\* C30, amended: an operation reports the auth failure exactly if its own
\* token step returned no token, that is, if its own auth exchange was
\* rejected or raised, or granted an empty token; the instance may at that
\* moment hold a usable token that the refresh of a concurrent operation
\* stored. Every operation that starts while its instance holds no usable
\* token sends exactly one auth POST, so N such operations send N.
C30_FailureFollowsOwnTokenStep ==
  [][\A c \in Calls :
       /\ Returns(c) /\ calls'[c].op \in SearchOps =>
            ( ReportsAuthFailure(calls'[c])
              <=> \/ calls'[c].auth \in {"non200", "exception"}
                  \/ calls'[c].auth = "200" /\ ~Truthy(calls'[c].token) )
       /\ calls'[c].op \in SearchOps /\ calls'[c].auth \in {"non200", "exception"} =>
            calls'[c].pc = "done" /\ calls'[c].search_gets = 0
       /\ \A s \in Services :
            /\ \A d \in InWindow(calls', s) : calls'[d].auth_posts = 1
            /\ AuthPosts(calls', InWindow(calls', s)) = Cardinality(InWindow(calls', s))
    ]_vars

\* two hotel searches started while the instance held no token and each
\* sent an auth POST; the second one's refresh stored a token that is still
\* usable, and the first one, whose own auth POST was rejected, has
\* reported "Unable to get access token"
C30_Witness ==
  /\ calls["c1"].op = "search_hotel_offers" /\ calls["c2"].op = "search_hotel_offers"
  /\ calls["c1"].held = "no_token" /\ calls["c2"].held = "no_token"
  /\ calls["c1"].auth_posts = 1 /\ calls["c2"].auth_posts = 1
  /\ calls["c2"].auth = "200" /\ calls["c2"].token = "T2"
  /\ grant["hotel"].tok_from = "c2" /\ access_token["hotel"] = "T2"
  /\ now < token_expires_at["hotel"]
  /\ calls["c1"].auth = "non200" /\ ReportsAuthFailure(calls["c1"])

Pending(c) == calls[c].pc \in {"auth_wait", "search_wait"}
Returned(c) == calls[c].pc = "done"

\* C27: an invocation returns exactly when its own HTTP exchanges complete.
\* It sends at most one auth POST and one search GET; a step of one
\* invocation changes nothing of another; while an invocation waits for an
\* exchange, the next invocation on the same instance can be entered and
\* every waiting invocation can take its answer; an invocation whose
\* exchanges complete eventually returns, whether or not the exchange of
\* the other one ever completes.
C27_InvocationsReturn ==
  /\ [](\A c \in TwoCalls :
          /\ calls[c].auth_posts <= 1 /\ calls[c].search_gets <= 1
          /\ Pending(c) => ENABLED Exchange(c)
          /\ Pending(c) =>
               \A d \in TwoCalls \ {c} :
                  calls[d].pc = "idle" =>
                    ENABLED Invoke(d, "search_hotel_offers", "hotel"))
  /\ [][\A c \in TwoCalls, d \in TwoCalls :
          c # d /\ calls'[d] # calls[d] => calls'[c] = calls[c]]_vars
  /\ (Pending("c2") ~> Returned("c2"))
  /\ (WF_vars(Exchange("c1")) => (Pending("c1") ~> Returned("c1")))

\* the first invocation still waits for its auth exchange while the second,
\* entered after it on the same instance, has sent both its requests and
\* returned
C27_Witness ==
  /\ calls["c1"].pc = "auth_wait" /\ calls["c1"].svc = "hotel"
  /\ calls["c2"].pc = "done" /\ calls["c2"].svc = "hotel"
  /\ calls["c2"].op = "search_hotel_offers"
  /\ calls["c2"].auth_posts = 1 /\ calls["c2"].search_gets = 1
  /\ calls["c2"].search = "200"

====
